---- MODULE Spec2Model ----
(***************************************************************************)
(* Model of scripts/spec_sync.js: the reconcile run (main), the state      *)
(* file, and the remote documentation platform it talks to.  One run is a  *)
(* sequence of steps, one per remote call (await) of main; the remote      *)
(* answers every call either with a failure (non-2xx) or with a result     *)
(* computed from the remote asset graph.  Identifiers are positive         *)
(* numbers; None stands for a missing one.                                 *)
(***************************************************************************)
EXTENDS Integers, Sequences, FiniteSets, TLC

(* ------------------------------------------------------------------ *)
(* Bounds of the model                                                 *)
(* ------------------------------------------------------------------ *)
\* number of runs of the script in one behaviour
MaxRuns == 2
\* iterations pollTask can make before its deadline (timeoutMs / intervalMs)
MaxPolls == 2
\* enabled environment descriptors of the service in config/environments.json
MaxEnvs == 1
\* collections of the workspace a run can find when it starts (SpecPick)
MaxCols == 3

(* ------------------------------------------------------------------ *)
(* Values                                                              *)
(* ------------------------------------------------------------------ *)
\* a missing (falsy) identifier: undefined / null / ''
None == 0

\* identity keys key(domain, service, stage) of one service in two stages
Keys == {"demo:svc:dev", "demo:svc:prod"}

\* `[DEMO] ${sanitizedService} #main`
specName == "[DEMO] svc #main"
collectionName == "[DEMO] svc #main"

EmptyFn == [x \in {} |-> None]

\* `state.entries[entryKey] || {}`
\* an entry without a recorded content hash (the property lastSpecSha is absent)
NoSha == ""

\* the SHA-256 of fileText, the serialized document the runs push
fileSha == "sha256-of-fileText"

\* the SHA-256 of an earlier version of the document
staleSha == "sha256-of-earlier-text"

EmptyEntry == [specId |-> None, collectionUid |-> None, environments |-> EmptyFn,
               lastSpecSha |-> NoSha]

\* JS `a || b` on identifiers
Or(a, b) == IF a # None THEN a ELSE b

\* variant: the document is rebuilt with the entry of the run alone
Put_Only(st, k, e) == [x \in {k} |-> e]

\* state.entries[entryKey] = entry
Put(st, k, e) == [x \in (DOMAIN st) \cup {k} |-> IF x = k THEN e ELSE st[x]]

\* { ...entry.environments, ...createdEnvs }
Merge(f, g) == [x \in (DOMAIN f) \cup (DOMAIN g) |-> IF x \in DOMAIN g THEN g[x] ELSE f[x]]

\* Array.prototype.find(x => x.name === name): index of the first match, 0 if none
FindByName(list, name) ==
  IF \E i \in 1..Len(list) : list[i].name = name
  THEN CHOOSE i \in 1..Len(list) :
         /\ list[i].name = name
         /\ \A j \in 1..(i - 1) : list[j].name # name
  ELSE 0

\* the collections of list that were generated from spec sid, in order
RECURSIVE SelectLinked(_, _)
SelectLinked(list, sid) ==
  IF list = << >> THEN << >>
  ELSE IF Head(list).spec = sid
       THEN << Head(list) >> \o SelectLinked(Tail(list), sid)
       ELSE SelectLinked(Tail(list), sid)

(* ------------------------------------------------------------------ *)
(* State                                                               *)
(* ------------------------------------------------------------------ *)
VARIABLES
  \* remote platform (workspace)
  rSpecs,       \* sequence of [id, name]: the specs of the workspace
  rCols,        \* sequence of [uid, name, spec]: collections, spec = generating spec
  rEnvs,        \* sequence of [uid, name]: environments
  rTasks,       \* sequence of [kind, status, spec, col]: async tasks; locator = index
  nextId,       \* next identifier the remote hands out
  \* state file on disk
  file,         \* [exists, form, entries]; form: what the content parses to
  \* the running process
  pc,           \* position of main
  runs,         \* runs started so far
  entryKey,     \* key(domain, service, stage)
  args,         \* [specId, collectionUid, poll]: --spec-id, --collection-uid, --poll
  envN,         \* number of enabled environment descriptors (0: none / no config)
  input,        \* "ok", or what is wrong with the invocation (see RejectRun)
  state,        \* loaded state document (its entries)
  cached,       \* the state entry as loadState read it
  entry,        \* state entry of this run
  specId,
  collectionUid,
  taskUrl,      \* task.url of the sync / generation response
  polls,        \* pollTask iterations done
  last,         \* pollTask: payload of the latest fetch
  taskResult,   \* payload pollTask returned
  generatedCollectionUid,
  envIdx,       \* environment descriptor the loop is at
  createdEnvs,
  calls,        \* per operation, how often this run called it
  hits,         \* per lookup operation, how often it yielded an id in this run
  lastCall,     \* the latest remote call of this run and its answer
  sent,         \* the spec ids / collection uids this run passed to patch, sync, generate
  exitCode,     \* "none" while running, else the exit status 0 / 1 / 2
  prev,         \* identifiers of the run before, while this run repeats it
  other,        \* a second run of the script that overlaps with this one
  pure,         \* a pure function of the script applied to an input: [fn, in, out]
  script        \* a run of one of the standalone scripts: [name, pc, ...]

remote == << rSpecs, rCols, rEnvs, rTasks, nextId >>
inputs == << runs, entryKey, args, envN, input >>
locals == << state, cached, entry, specId, collectionUid, taskUrl, polls, last, taskResult,
             generatedCollectionUid, envIdx, createdEnvs >>
vars == << rSpecs, rCols, rEnvs, rTasks, nextId, file, pc, runs, entryKey, args, envN,
           input, prev, other, pure, script, state, cached, entry, specId, collectionUid, taskUrl, polls, last, taskResult,
           generatedCollectionUid, envIdx, createdEnvs, calls, hits, lastCall, sent, exitCode >>

\* a task payload: status plus every place main looks for a collection uid
Payload(st, res, rcu, cu, ru, u) ==
  [status |-> st, resources |-> res, resultCollectionUid |-> rcu, collectionUid |-> cu,
   resultUid |-> ru, uid |-> u]

\* payload without any identifier
Bare(st) == Payload(st, << >>, None, None, None, None)

\* `undefined`: no payload
NoTask == Bare("none")

\* the remote calls of main, and pollTask
Ops == {"listSpecs", "createSpec", "patchSpecFile", "getSpecCollections",
        "listCollections", "listCollectionsGlobal", "syncCollection",
        "generateCollection", "pollTask", "taskFetch", "updateEnvironment",
        "createEnvironment"}

NoCalls == [op \in Ops |-> 0]

\* a call and its answer: the spec id and collection uid sent, ok (2xx), accepted
\* (status 202), url (the answer carries a task locator), found (the identifier a
\* lookup by name returned), data (the payload a task fetch returned)
Call(op, spec, col, ok) ==
  [op |-> op, spec |-> spec, col |-> col, ok |-> ok, accepted |-> FALSE, url |-> FALSE,
   found |-> None, data |-> NoTask]

NoCall == Call("none", None, None, TRUE)

NoSent == [spec |-> {}, col |-> {}]

\* no earlier run to compare with.  at: "none", "ended" (the run is over and its
\* process gone), "rerun" (the running run repeats it); quiet: the workspace did not
\* change since that run ended
NoPrev == [at |-> "none", specId |-> None, collectionUid |-> None, ok |-> FALSE,
           quiet |-> TRUE]

\* the second run has not started
NoOther == [pc |-> "off", key |-> "", state |-> EmptyFn, exit |-> "none",
            loadedAt |-> "never", savedAt |-> "never"]

\* no function applied
NoPure == [fn |-> "none", in |-> << >>, out |-> << >>, threw |-> FALSE]

\* no standalone script has been started
NoScript == [name |-> "none"]

\* no state file
NoFile == [exists |-> FALSE, form |-> "none", entries |-> EmptyFn]

Init ==
  /\ rSpecs = << >> /\ rCols = << >> /\ rEnvs = << >> /\ rTasks = << >>
  /\ nextId = 1
  /\ file = NoFile
  /\ pc = "idle"
  /\ runs = 0
  /\ entryKey = "demo:svc:dev"
  /\ args = [specId |-> None, collectionUid |-> None, poll |-> FALSE]
  /\ envN = 0
  /\ input = "ok"
  /\ prev = NoPrev
  /\ other = NoOther
  /\ pure = NoPure
  /\ script = NoScript
  /\ state = EmptyFn
  /\ cached = EmptyEntry
  /\ entry = EmptyEntry
  /\ specId = None /\ collectionUid = None
  /\ taskUrl = None /\ polls = 0 /\ last = NoTask /\ taskResult = NoTask
  /\ generatedCollectionUid = None
  /\ envIdx = 0 /\ createdEnvs = EmptyFn
  /\ calls = NoCalls
  /\ hits = NoCalls
  /\ lastCall = NoCall
  /\ sent = NoSent
  /\ exitCode = "none"

\* bookkeeping of one remote call c; polling when main goes on to call pollTask on
\* the answer
Called(c, polling) ==
  /\ calls' = [calls EXCEPT ![c.op] = @ + 1,
                            !["pollTask"] = IF polling THEN @ + 1 ELSE @]
  /\ hits' = [hits EXCEPT ![c.op] = IF c.found # None THEN @ + 1 ELSE @]
  /\ lastCall' = c
  /\ sent' = IF c.op \in {"patchSpecFile", "syncCollection", "generateCollection"}
             THEN [spec |-> sent.spec \cup {c.spec},
                   col |-> IF c.op = "syncCollection" THEN sent.col \cup {c.col}
                           ELSE sent.col]
             ELSE sent

Log(c) == Called(c, FALSE)

\* variant: the error is printed but the process ends with status 0
Fatal_ExitZero == /\ pc' = "done" /\ exitCode' = 0

\* catch (err) { console.error(...); process.exit(1) }
Fatal == /\ pc' = "done" /\ exitCode' = 1

(* ------------------------------------------------------------------ *)
(* State store                                                         *)
(* ------------------------------------------------------------------ *)
\* loadState: the parsed file, or { entries: {} } when reading or parsing fails
loadState == IF file.exists /\ file.form # "text" THEN file.entries ELSE EmptyFn

\* variant: a document without an entries mapping reads like an empty one
HasEntries_Always == TRUE

\* state.entries[entryKey] can be evaluated: the document loadState returned has an
\* entries mapping (a parsed file is returned as it is)
HasEntries == ~(file.exists /\ file.form = "json")

\* JSON.stringify(state, null, 2): a property whose value is undefined is left out
Stringify(st) ==
  [k \in DOMAIN st |->
     [st[k] EXCEPT !.environments =
        [n \in {m \in DOMAIN st[k].environments : st[k].environments[m] # None} |->
           st[k].environments[n]]]]

\* variant: the entries on disk are merged with the document that is written
saveState_Merged(st) ==
  file' = [exists |-> TRUE, form |-> "entries",
           entries |-> Merge(loadState, Stringify(st))]

\* saveState(stateFile, state): the whole document replaces the file
saveState(st) == file' = [exists |-> TRUE, form |-> "entries", entries |-> Stringify(st)]

\* variant: the run starts from an empty entry whatever the document holds
EntryOf_Fresh(st, k) == EmptyEntry

\* const entry = state.entries[entryKey] || {}
EntryOf(st, k) == IF k \in DOMAIN st THEN st[k] ELSE EmptyEntry

(* ------------------------------------------------------------------ *)
(* Identifier resolution                                               *)
(* ------------------------------------------------------------------ *)
\* variant: the operator's --spec-id wins over the cached value
ResolveSpecId_OverrideFirst(e, specIdArg) == Or(specIdArg, e.specId)

\* let specId = entry.specId || specIdArg
ResolveSpecId(e, specIdArg) == Or(e.specId, specIdArg)

\* variant: the operator's --collection-uid wins over the cached value
ResolveCollectionUid_OverrideFirst(e, collectionUidArg) ==
  Or(collectionUidArg, e.collectionUid)

\* variant: the cached collectionUid is not read
ResolveCollectionUid_IgnoreCache(e, collectionUidArg) == collectionUidArg

\* let collectionUid = entry.collectionUid || collectionUidArg
ResolveCollectionUid(e, collectionUidArg) == Or(e.collectionUid, collectionUidArg)

\* findSpecByName: the id of the first spec with the name; a failing list call is
\* swallowed and reads as "no such spec"
findSpecByName(ok) ==
  LET i == IF ok THEN FindByName(rSpecs, specName) ELSE 0
  IN IF i = 0 THEN None ELSE rSpecs[i].id

\* the generated-collections tier: the exact name match, else the first entry
PickSpecCollection(specCollections) ==
  LET i == FindByName(specCollections, collectionName)
  IN IF i # 0 THEN specCollections[i].uid
     ELSE IF Len(specCollections) > 0 THEN specCollections[1].uid
     ELSE None

\* getSpecCollections: the collections generated from the spec; a failing call is
\* swallowed and reads as the empty list
getSpecCollections(ok) == IF ok THEN SelectLinked(rCols, specId) ELSE << >>

\* (Array.isArray(cols) ? cols : []).find(c => c.name === name)?.uid
FoundCollectionUid ==
  LET i == FindByName(rCols, collectionName)
  IN IF i = 0 THEN None ELSE rCols[i].uid

SpecExists(id) == \E i \in 1..Len(rSpecs) : rSpecs[i].id = id
CollectionLinked(uid, sid) ==
  \E i \in 1..Len(rCols) : rCols[i].uid = uid /\ rCols[i].spec = sid
EnvExists(uid) == \E i \in 1..Len(rEnvs) : rEnvs[i].uid = uid

(* ------------------------------------------------------------------ *)
(* Tail of main: state entry update, environments, final save          *)
(* ------------------------------------------------------------------ *)
\* stateEntry.environments?.[env.name]
ExistingEnvUid(e, i) ==
  IF i \in DOMAIN e.environments THEN e.environments[i] ELSE None

\* state.entries[entryKey] = entry; saveState(stateFile, state); exit 0
Finish(e) ==
  /\ entry' = e
  /\ state' = Put(state, entryKey, e)
  /\ saveState(Put(state, entryKey, e))
  /\ pc' = "done"
  /\ exitCode' = 0

\* the loop of createEnvironmentsFromConfig at descriptor i with createdEnvs = ce;
\* past the last descriptor, the merge into entry.environments and the final save
EnvLoop(e, i, ce) ==
  /\ envIdx' = i
  /\ createdEnvs' = ce
  /\ IF i <= envN
     THEN /\ entry' = e
          /\ pc' = IF ExistingEnvUid(e, i) # None THEN "env_put" ELSE "env_post"
          /\ UNCHANGED << state, file, exitCode >>
     ELSE Finish(IF DOMAIN ce # {}
                 THEN [e EXCEPT !.environments = Merge(e.environments, ce)]
                 ELSE e)

\* variant: the specId of a run that resolved it from --spec-id is not written back
AfterCollection_NoBackfill(uid) ==
  /\ collectionUid' = uid
  /\ EnvLoop([entry EXCEPT !.collectionUid = uid], 1, EmptyFn)

\* entry.collectionUid = collectionUid; if (!entry.specId) entry.specId = specId;
\* then the environment step
AfterCollection(uid) ==
  /\ collectionUid' = uid
  /\ EnvLoop([entry EXCEPT !.collectionUid = uid,
                           !.specId = IF @ = None THEN specId ELSE @],
             1, EmptyFn)

(* ------------------------------------------------------------------ *)
(* main: start, spec resolution, patch                                 *)
(* ------------------------------------------------------------------ *)
\* values an operator can pass as --spec-id / --collection-uid: nothing, the id of
\* an existing asset, or an id no asset has
SpecArgs == {None} \cup {rSpecs[i].id : i \in 1..Len(rSpecs)} \cup {nextId}
ColArgs == {None} \cup {rCols[i].uid : i \in 1..Len(rCols)} \cup {nextId}

\* the run that has ended, as the next run sees it
Ended ==
  IF pc = "done"
  THEN [at |-> "ended", specId |-> specId, collectionUid |-> collectionUid,
        ok |-> exitCode = 0, quiet |-> prev.at # "ended" \/ prev.quiet]
  ELSE prev

\* prev of a run started with key k, arguments a, n environments and input i: the
\* run before, when it completed, the workspace is as it left it and the new run
\* has the same inputs
Rerun(k, a, n, i) ==
  IF /\ Ended.at = "ended" /\ Ended.ok /\ Ended.quiet
     /\ k = entryKey /\ a = args /\ n = envN /\ i = input
  THEN [Ended EXCEPT !.at = "rerun"]
  ELSE NoPrev

\* main up to the resolution of the specId, for a service with one of the given
\* numbers of enabled environment descriptors
StartRunWith(envCounts) ==
  /\ pc \in {"idle", "done"}
  /\ runs < MaxRuns
  /\ HasEntries
  /\ input' = "ok"
  /\ \E k \in Keys, sa \in SpecArgs, ca \in ColArgs, p \in BOOLEAN, n \in envCounts :
       LET st == loadState
           e == EntryOf(st, k)
           sid == ResolveSpecId(e, sa)
       IN /\ runs' = runs + 1
          /\ entryKey' = k
          /\ args' = [specId |-> sa, collectionUid |-> ca, poll |-> p]
          /\ envN' = n
          /\ state' = st
          /\ cached' = e
          /\ entry' = e
          /\ specId' = sid
          /\ pc' = IF sid = None THEN "find_spec" ELSE "patch"
          /\ prev' = Rerun(k, [specId |-> sa, collectionUid |-> ca, poll |-> p], n, "ok")
  /\ collectionUid' = None /\ taskUrl' = None /\ polls' = 0
  /\ last' = NoTask /\ taskResult' = NoTask /\ generatedCollectionUid' = None
  /\ envIdx' = 0 /\ createdEnvs' = EmptyFn
  /\ calls' = NoCalls
  /\ hits' = NoCalls
  /\ lastCall' = NoCall
  /\ sent' = NoSent
  /\ exitCode' = "none"
  /\ UNCHANGED << remote, file, other, pure, script >>

StartRun == StartRunWith(0..MaxEnvs)

\* what can be wrong with an invocation, in the order main checks it: a required
\* argument is missing; POSTMAN_API_KEY or POSTMAN_WORKSPACE_ID is not set; the
\* state document has no entries mapping; the OpenAPI file exceeds 10 MB
Flaws == {"usage", "env", "state", "size"}

\* variant: the usage message is printed and the process ends with status 0
ExitStatus_UsageZero(flaw) == IF flaw = "usage" THEN 0 ELSE 1

\* process.exit(2) after the usage message; a throw ends in catch -> process.exit(1)
ExitStatus(flaw) == IF flaw = "usage" THEN 2 ELSE 1

\* main up to the OpenAPI size check, when one of the checks fails: process.exit(2)
\* for the usage error, else the throw ends in catch -> process.exit(1)
RejectRun ==
  /\ pc \in {"idle", "done"}
  /\ runs < MaxRuns
  /\ \E k \in Keys, sa \in SpecArgs, ca \in ColArgs, p \in BOOLEAN, n \in 0..MaxEnvs,
        flaw \in Flaws :
       /\ flaw = "state" => ~HasEntries
       /\ flaw = "size" => HasEntries
       /\ runs' = runs + 1
       /\ entryKey' = k
       /\ args' = [specId |-> sa, collectionUid |-> ca, poll |-> p]
       /\ envN' = n
       /\ input' = flaw
       /\ state' = IF flaw = "size" THEN loadState ELSE EmptyFn
       /\ cached' = IF flaw = "size" THEN EntryOf(loadState, k) ELSE EmptyEntry
       /\ entry' = IF flaw = "size" THEN EntryOf(loadState, k) ELSE EmptyEntry
       /\ exitCode' = ExitStatus(flaw)
       /\ prev' = Rerun(k, [specId |-> sa, collectionUid |-> ca, poll |-> p], n, flaw)
  /\ pc' = "done"
  /\ specId' = None /\ collectionUid' = None /\ taskUrl' = None /\ polls' = 0
  /\ last' = NoTask /\ taskResult' = NoTask /\ generatedCollectionUid' = None
  /\ envIdx' = 0 /\ createdEnvs' = EmptyFn
  /\ calls' = NoCalls
  /\ hits' = NoCalls
  /\ lastCall' = NoCall
  /\ sent' = NoSent
  /\ UNCHANGED << remote, file, other, pure, script >>

\* variant: the new specId is kept in memory only, saved with the final save
RecordSpec_NoSave(id) ==
  /\ specId' = id
  /\ entry' = [entry EXCEPT !.specId = id]
  /\ state' = Put(state, entryKey, [entry EXCEPT !.specId = id])
  /\ UNCHANGED file

\* entry.specId = specId; state.entries[entryKey] = entry; saveState(stateFile, state)
RecordSpec(id) ==
  /\ specId' = id
  /\ entry' = [entry EXCEPT !.specId = id]
  /\ state' = Put(state, entryKey, [entry EXCEPT !.specId = id])
  /\ saveState(Put(state, entryKey, [entry EXCEPT !.specId = id]))

FindSpec ==
  /\ pc = "find_spec"
  /\ \E ok \in BOOLEAN :
       /\ Log([Call("listSpecs", None, None, ok) EXCEPT !.found = findSpecByName(ok)])
       /\ IF findSpecByName(ok) # None
          THEN /\ RecordSpec(findSpecByName(ok))
               /\ pc' = "patch"
          ELSE /\ pc' = "create_spec"
               /\ UNCHANGED << specId, entry, state, file >>
  /\ UNCHANGED << remote, inputs, cached, collectionUid, taskUrl, polls, last, taskResult,
                  generatedCollectionUid, envIdx, createdEnvs, exitCode,
                  prev, other, pure, script >>

\* createSpec, then `typeof createdId === 'string' ? createdId : createdId?.id`
CreateSpec ==
  /\ pc = "create_spec"
  /\ \E resp \in {"fail", "id", "noid"} :
       /\ Log(Call("createSpec", None, None, resp # "fail"))
       /\ IF resp = "fail"
          THEN /\ Fatal
               /\ UNCHANGED << rSpecs, nextId, specId, entry, state, file >>
          ELSE /\ rSpecs' = Append(rSpecs, [id |-> nextId, name |-> specName])
               /\ nextId' = nextId + 1
               /\ IF resp = "id"
                  THEN /\ RecordSpec(nextId)
                       /\ pc' = "patch"
                       /\ UNCHANGED exitCode
                  ELSE /\ Fatal
                       /\ UNCHANGED << specId, entry, state, file >>
  /\ UNCHANGED << rCols, rEnvs, rTasks, inputs, cached, collectionUid, taskUrl, polls,
                  last, taskResult, generatedCollectionUid, envIdx, createdEnvs,
                  prev, other, pure, script >>

\* a run that compares the hash of fileText with entry.lastSpecSha and skips the PATCH
\* when they are equal
PatchSpec_SkipOnMatch ==
  /\ pc = "patch"
  /\ LET cu == ResolveCollectionUid(entry, args.collectionUid)
     IN IF entry.lastSpecSha = fileSha
        THEN /\ collectionUid' = cu
             /\ pc' = IF cu = None THEN "spec_cols" ELSE "sync"
             /\ UNCHANGED << calls, hits, lastCall, sent, exitCode >>
        ELSE \E fault \in BOOLEAN :
               LET ok == ~fault /\ SpecExists(specId)
               IN /\ Log(Call("patchSpecFile", specId, None, ok))
                  /\ IF ok
                     THEN /\ collectionUid' = cu
                          /\ pc' = IF cu = None THEN "spec_cols" ELSE "sync"
                          /\ UNCHANGED exitCode
                     ELSE /\ Fatal
                          /\ UNCHANGED collectionUid
  /\ UNCHANGED << remote, file, inputs, state, cached, entry, specId, taskUrl, polls, last,
                  taskResult, generatedCollectionUid, envIdx, createdEnvs,
                  prev, other, pure, script >>

\* await patchSpecFile(specId, specFilePath, fileText, POSTMAN_API_KEY): no condition
\* guards the call, entry.lastSpecSha is not read
PatchSpec ==
  /\ pc = "patch"
  /\ \E fault \in BOOLEAN :
       LET ok == ~fault /\ SpecExists(specId)
           cu == ResolveCollectionUid(entry, args.collectionUid)
       IN /\ Log(Call("patchSpecFile", specId, None, ok))
          /\ IF ok
             THEN /\ collectionUid' = cu
                  /\ pc' = IF cu = None THEN "spec_cols" ELSE "sync"
                  /\ UNCHANGED exitCode
             ELSE /\ Fatal
                  /\ UNCHANGED collectionUid
  /\ UNCHANGED << remote, file, inputs, state, cached, entry, specId, taskUrl, polls, last,
                  taskResult, generatedCollectionUid, envIdx, createdEnvs,
                  prev, other, pure, script >>

(* ------------------------------------------------------------------ *)
(* main: collection resolution                                         *)
(* ------------------------------------------------------------------ *)
SpecCollections ==
  /\ pc = "spec_cols"
  /\ \E fault \in BOOLEAN :
       LET ok == ~fault /\ SpecExists(specId)
           uid == PickSpecCollection(getSpecCollections(ok))
       IN /\ Log([Call("getSpecCollections", specId, None, ok) EXCEPT !.found = uid])
          /\ collectionUid' = uid
          /\ pc' = IF uid # None THEN "sync" ELSE "find_col"
  /\ UNCHANGED << remote, file, inputs, state, cached, entry, specId, taskUrl, polls, last,
                  taskResult, generatedCollectionUid, envIdx, createdEnvs, exitCode,
                  prev, other, pure, script >>

\* findCollectionByName -> listCollections: the workspace-scoped listing; when it
\* fails the global listing is tried (next step)
FindCollection ==
  /\ pc = "find_col"
  /\ \E ok \in BOOLEAN :
       /\ Log([Call("listCollections", None, None, ok) EXCEPT
                 !.found = IF ok THEN FoundCollectionUid ELSE None])
       /\ IF ok
          THEN /\ collectionUid' = FoundCollectionUid
               /\ pc' = IF FoundCollectionUid # None THEN "sync" ELSE "generate"
          ELSE /\ pc' = "find_col_global"
               /\ UNCHANGED collectionUid
  /\ UNCHANGED << remote, file, inputs, state, cached, entry, specId, taskUrl, polls, last,
                  taskResult, generatedCollectionUid, envIdx, createdEnvs, exitCode,
                  prev, other, pure, script >>

\* the global listing; when it fails too findCollectionByName swallows the error
\* and returns null
FindCollectionGlobal ==
  /\ pc = "find_col_global"
  /\ \E ok \in BOOLEAN :
       LET uid == IF ok THEN FoundCollectionUid ELSE None
       IN /\ Log([Call("listCollectionsGlobal", None, None, ok) EXCEPT !.found = uid])
          /\ collectionUid' = uid
          /\ pc' = IF uid # None THEN "sync" ELSE "generate"
  /\ UNCHANGED << remote, file, inputs, state, cached, entry, specId, taskUrl, polls, last,
                  taskResult, generatedCollectionUid, envIdx, createdEnvs, exitCode,
                  prev, other, pure, script >>

(* ------------------------------------------------------------------ *)
(* Tasks and pollTask                                                  *)
(* ------------------------------------------------------------------ *)
\* String(data.status) lower-cased, for the /i flag of the terminal-status test
Lower(st) == IF st = "SUCCESS" THEN "success" ELSE st

\* variant: the status test without the /i flag
IsTerminal_CaseSensitive(st) == st \in {"success", "failed", "completed"}

\* /^(success|failed|completed)$/i.test(String(data.status))
IsTerminal(st) == Lower(st) \in {"success", "failed", "completed"}

\* variant: only a task reported as failed counts as a failure
TaskFailed_OnlyFailed(t) == t.status = "failed"

\* taskResult?.status !== 'success' && taskResult?.status !== 'completed'
TaskFailed(t) == t.status # "success" /\ t.status # "completed"

\* places of a payload that can carry the collection identifier
IdFields == {"resource.id", "resource.url", "result.collection.uid", "collection.uid",
             "result.uid", "uid"}

\* payloads of a completed generation task whose collection is u; w is an identifier
\* of no collection.  Any place may be filled, no two places with the same identifier;
\* details.resources starts with an entry that is no collection.
SuccessPayloads(u, w) ==
  LET Fill == {f \in [IdFields -> {None, u, w}] :
                 \A x, y \in IdFields : (x # y /\ f[x] # None) => f[x] # f[y]}
      Resources(f) ==
        IF f["resource.id"] = None /\ f["resource.url"] = None
        THEN { << [col |-> FALSE, id |-> w, tail |-> None] >>,
               << [col |-> FALSE, id |-> w, tail |-> None],
                  [col |-> TRUE, id |-> None, tail |-> None] >> }
        ELSE { << [col |-> FALSE, id |-> w, tail |-> None],
                  [col |-> TRUE, id |-> f["resource.id"], tail |-> f["resource.url"]] >> }
  IN UNION { { Payload("success", res, f["result.collection.uid"], f["collection.uid"],
                       f["result.uid"], f["uid"]) : res \in Resources(f) } : f \in Fill }
     \cup { Payload("completed", << [col |-> TRUE, id |-> u, tail |-> u] >>,
                    None, None, None, None) }

\* what GET <task url> can answer for a task
Reported(task) ==
  IF task.status = "pending" THEN {Bare("pending")}
  ELSE IF task.status = "failed" THEN {Bare("failed")}
  ELSE IF task.kind = "sync" THEN {Bare("success"), Bare("completed"), Bare("SUCCESS")}
  ELSE SuccessPayloads(task.col, nextId) \cup {Bare("SUCCESS")}

\* variant: a sync answer with a task url is polled whatever --poll says
SyncPolled_Always(poll, url) == url

\* if (poll && task?.url): the sync task is polled
SyncPolled(poll, url) == poll /\ url

\* variant: only the 202 is tested, not the task url
GenerationStarted_AcceptedOnly(accepted, url) == accepted

\* if (!accepted || !task?.url) throw: the generation goes on to its poll
GenerationStarted(accepted, url) == accepted /\ url

\* a loop whose clock stands still: the deadline never comes
PollFetch_NoClock(loopPc, checkPc) ==
  /\ pc = loopPc
  /\ polls < MaxPolls
  /\ \E ok \in BOOLEAN :
       /\ IF ~ok
          THEN /\ Log(Call("taskFetch", None, None, FALSE))
               /\ Fatal
               /\ UNCHANGED << polls, last, taskResult >>
          ELSE \E data \in Reported(rTasks[taskUrl]) :
                 /\ Log([Call("taskFetch", None, None, TRUE) EXCEPT !.data = data])
                 /\ UNCHANGED exitCode
                 /\ IF IsTerminal(data.status)
                    THEN /\ taskResult' = data
                         /\ last' = NoTask
                         /\ pc' = checkPc
                         /\ UNCHANGED polls
                    ELSE /\ pc' = loopPc
                         /\ last' = data
                         /\ UNCHANGED << polls, taskResult >>
  /\ UNCHANGED << remote, file, inputs, state, cached, entry, specId, collectionUid, taskUrl,
                  generatedCollectionUid, envIdx, createdEnvs,
                  prev, other, pure, script >>

\* one iteration of the loop of pollTask: fetch, test, wait; the wait moves the clock
\* by the interval, and after MaxPolls intervals Date.now() - start < timeoutMs fails
PollFetch(loopPc, checkPc) ==
  /\ pc = loopPc
  /\ polls < MaxPolls
  /\ \E ok \in BOOLEAN :
       /\ IF ~ok
          THEN /\ Log(Call("taskFetch", None, None, FALSE))
               /\ Fatal
               /\ UNCHANGED << polls, last, taskResult >>
          ELSE \E data \in Reported(rTasks[taskUrl]) :
                 /\ Log([Call("taskFetch", None, None, TRUE) EXCEPT !.data = data])
                 /\ UNCHANGED exitCode
                 /\ IF IsTerminal(data.status)
                    THEN /\ taskResult' = data
                         /\ last' = NoTask
                         /\ pc' = checkPc
                         /\ UNCHANGED polls
                    ELSE /\ polls' = polls + 1
                         /\ IF polls + 1 < MaxPolls
                            THEN /\ pc' = loopPc
                                 /\ last' = data
                                 /\ UNCHANGED taskResult
                            ELSE /\ pc' = checkPc
                                 /\ last' = NoTask
                                 /\ taskResult' = data
  /\ UNCHANGED << remote, file, inputs, state, cached, entry, specId, collectionUid, taskUrl,
                  generatedCollectionUid, envIdx, createdEnvs,
                  prev, other, pure, script >>

(* ------------------------------------------------------------------ *)
(* main: sync branch                                                   *)
(* ------------------------------------------------------------------ *)
\* syncCollection, then `if (poll && task?.url)`
Sync ==
  /\ pc = "sync"
  /\ \E fault \in BOOLEAN, accepted \in BOOLEAN, url \in BOOLEAN :
       LET ok == ~fault /\ CollectionLinked(collectionUid, specId)
           polling == ok /\ SyncPolled(args.poll, url)
       IN /\ Called([Call("syncCollection", specId, collectionUid, ok) EXCEPT
                       !.accepted = ok /\ accepted, !.url = ok /\ url], polling)
          /\ IF ~ok
             THEN /\ Fatal
                  /\ UNCHANGED << rTasks, taskUrl, entry, state, file, envIdx, createdEnvs,
                                  collectionUid >>
             ELSE /\ rTasks' = IF accepted \/ url
                               THEN Append(rTasks, [kind |-> "sync", status |-> "pending",
                                                    spec |-> specId, col |-> collectionUid])
                               ELSE rTasks
                  /\ taskUrl' = IF url THEN Len(rTasks) + 1 ELSE None
                  /\ IF polling
                     THEN /\ pc' = "sync_poll"
                          /\ UNCHANGED << entry, state, file, envIdx, createdEnvs,
                                          collectionUid, exitCode >>
                     ELSE AfterCollection(collectionUid)
  /\ UNCHANGED << rSpecs, rCols, rEnvs, nextId, inputs, cached, specId, polls, last,
                  taskResult, generatedCollectionUid,
                  prev, other, pure, script >>

SyncPoll == PollFetch("sync_poll", "sync_check")

SyncCheck ==
  /\ pc = "sync_check"
  /\ IF TaskFailed(taskResult)
     THEN /\ Fatal
          /\ UNCHANGED << entry, state, file, envIdx, createdEnvs, collectionUid >>
     ELSE AfterCollection(collectionUid)
  /\ UNCHANGED << remote, inputs, cached, specId, taskUrl, polls, last, taskResult,
                  generatedCollectionUid, calls, hits, lastCall, sent,
                  prev, other, pure, script >>

(* ------------------------------------------------------------------ *)
(* main: generation branch                                             *)
(* ------------------------------------------------------------------ *)
\* generateCollectionFromSpec, then `if (!accepted || !task?.url) throw`
Generate ==
  /\ pc = "generate"
  /\ \E fault \in BOOLEAN, accepted \in BOOLEAN, url \in BOOLEAN :
       LET ok == ~fault /\ SpecExists(specId)
           polling == ok /\ GenerationStarted(accepted, url)
       IN /\ Called([Call("generateCollection", specId, None, ok) EXCEPT
                       !.accepted = ok /\ accepted, !.url = ok /\ url], polling)
          /\ rTasks' = IF ok /\ (accepted \/ url)
                       THEN Append(rTasks, [kind |-> "gen", status |-> "pending",
                                            spec |-> specId, col |-> None])
                       ELSE rTasks
          /\ IF polling
             THEN /\ taskUrl' = Len(rTasks) + 1
                  /\ pc' = "gen_poll"
                  /\ UNCHANGED exitCode
             ELSE /\ Fatal
                  /\ UNCHANGED taskUrl
  /\ UNCHANGED << rSpecs, rCols, rEnvs, nextId, file, inputs, state, cached, entry,
                  specId, collectionUid, polls, last, taskResult, generatedCollectionUid,
                  envIdx, createdEnvs,
                  prev, other, pure, script >>

GenPoll == PollFetch("gen_poll", "gen_check")

\* taskResult.details.resources.find(r => r.url?.includes('/collections/')), then
\* resource.id || resource.url?.split('/collections/')[1]
FromResources(t) ==
  LET cand == {i \in 1..Len(t.resources) : t.resources[i].col}
  IN IF cand = {} THEN None
     ELSE LET r == t.resources[CHOOSE i \in cand : \A j \in cand : i <= j]
          IN Or(r.id, r.tail)

\* variant: the alternate fields are read in the opposite order
FromAlternates_Reversed(t) ==
  Or(t.uid, Or(t.resultUid, Or(t.collectionUid, t.resultCollectionUid)))

\* taskResult?.result?.collection?.uid || taskResult?.collection?.uid ||
\* taskResult?.result?.uid || taskResult?.uid
FromAlternates(t) ==
  Or(t.resultCollectionUid, Or(t.collectionUid, Or(t.resultUid, t.uid)))

\* generatedCollectionUid after the two extraction steps
ExtractUid(t) == Or(FromResources(t), FromAlternates(t))

GenCheck ==
  /\ pc = "gen_check"
  /\ IF TaskFailed(taskResult)
     THEN /\ Fatal
          /\ UNCHANGED generatedCollectionUid
     ELSE /\ generatedCollectionUid' = ExtractUid(taskResult)
          /\ pc' = IF ExtractUid(taskResult) # None THEN "gen_assign" ELSE "gen_lookup"
          /\ UNCHANGED exitCode
  /\ UNCHANGED << remote, file, inputs, state, cached, entry, specId, collectionUid, taskUrl,
                  polls, last, taskResult, envIdx, createdEnvs, calls, hits, lastCall, sent,
                  prev, other, pure, script >>

\* findCollectionByName after the generation: workspace-scoped listing
GenLookup ==
  /\ pc = "gen_lookup"
  /\ \E ok \in BOOLEAN :
       /\ Log([Call("listCollections", None, None, ok) EXCEPT
                 !.found = IF ok THEN FoundCollectionUid ELSE None])
       /\ IF ~ok
          THEN /\ pc' = "gen_lookup_global"
               /\ UNCHANGED << generatedCollectionUid, exitCode >>
          ELSE IF FoundCollectionUid # None
               THEN /\ generatedCollectionUid' = FoundCollectionUid
                    /\ pc' = "gen_assign"
                    /\ UNCHANGED exitCode
               ELSE /\ Fatal
                    /\ UNCHANGED generatedCollectionUid
  /\ UNCHANGED << remote, file, inputs, state, cached, entry, specId, collectionUid, taskUrl,
                  polls, last, taskResult, envIdx, createdEnvs,
                  prev, other, pure, script >>

GenLookupGlobal ==
  /\ pc = "gen_lookup_global"
  /\ \E ok \in BOOLEAN :
       /\ Log([Call("listCollectionsGlobal", None, None, ok) EXCEPT
                 !.found = IF ok THEN FoundCollectionUid ELSE None])
       /\ IF ok /\ FoundCollectionUid # None
          THEN /\ generatedCollectionUid' = FoundCollectionUid
               /\ pc' = "gen_assign"
               /\ UNCHANGED exitCode
          ELSE /\ Fatal
               /\ UNCHANGED generatedCollectionUid
  /\ UNCHANGED << remote, file, inputs, state, cached, entry, specId, collectionUid, taskUrl,
                  polls, last, taskResult, envIdx, createdEnvs,
                  prev, other, pure, script >>

\* collectionUid = generatedCollectionUid, leaving the generation block
GenAssign ==
  /\ pc = "gen_assign"
  /\ AfterCollection(generatedCollectionUid)
  /\ taskResult' = NoTask
  /\ generatedCollectionUid' = None
  /\ lastCall' = [lastCall EXCEPT !.data = NoTask]
  /\ UNCHANGED << remote, inputs, cached, specId, taskUrl, polls, last, calls, hits, sent,
                  prev, other, pure, script >>

(* ------------------------------------------------------------------ *)
(* createEnvironmentsFromConfig / upsertEnvironment                    *)
(* ------------------------------------------------------------------ *)
\* return data.environment?.uid || data.uid
CreatedUid(envUid, uid) == Or(envUid, uid)

\* return data.environment?.uid || existingUid
UpdatedUid(envUid, existingUid) == Or(envUid, existingUid)

\* PUT /environments/{existingUid}; a failure falls through to the create.  The
\* answer of an update names the environment (named) or not
EnvPut ==
  /\ pc = "env_put"
  /\ \E fault \in BOOLEAN, named \in BOOLEAN :
       LET existingUid == ExistingEnvUid(entry, envIdx)
           ok == ~fault /\ EnvExists(existingUid)
           envUid == UpdatedUid(IF named THEN existingUid ELSE None, existingUid)
       IN /\ Log([Call("updateEnvironment", None, existingUid, ok) EXCEPT
                    !.found = IF ok THEN envUid ELSE None])
          /\ (~ok => named)
          /\ IF ok
             THEN EnvLoop(entry, envIdx + 1, Put(createdEnvs, envIdx, envUid))
             ELSE /\ pc' = "env_post"
                  /\ UNCHANGED << entry, state, file, envIdx, createdEnvs, exitCode >>
  /\ UNCHANGED << remote, inputs, cached, specId, collectionUid, taskUrl, polls, last,
                  taskResult, generatedCollectionUid,
                  prev, other, pure, script >>

\* variant: the error of one descriptor ends the run
EnvFailed_Fatal ==
  /\ Fatal
  /\ UNCHANGED << entry, state, file, envIdx, createdEnvs >>

\* catch (err) { console.error(`Failed to create/update environment ...`) } inside the
\* loop: on to the next descriptor
EnvFailed == EnvLoop(entry, envIdx + 1, createdEnvs)

\* POST /environments; a failure is caught per descriptor and the loop goes on.
\* The answer of a create carries the uid as environment.uid, as uid, or not at all
EnvPost ==
  /\ pc = "env_post"
  /\ \E resp \in {"fail", "environment.uid", "uid", "nouid"} :
       LET ok == resp # "fail"
           envUid == CreatedUid(IF resp = "environment.uid" THEN nextId ELSE None,
                                IF resp = "uid" THEN nextId ELSE None)
       IN
       /\ Log([Call("createEnvironment", None, None, ok) EXCEPT
                 !.found = IF ok THEN envUid ELSE None])
       /\ IF ok
          THEN /\ rEnvs' = Append(rEnvs, [uid |-> nextId, name |-> envIdx])
               /\ nextId' = nextId + 1
               /\ EnvLoop(entry, envIdx + 1, Put(createdEnvs, envIdx, envUid))
          ELSE /\ EnvFailed
               /\ UNCHANGED << rEnvs, nextId >>
  /\ UNCHANGED << rSpecs, rCols, rTasks, inputs, cached, specId, collectionUid, taskUrl,
                  polls, last, taskResult, generatedCollectionUid,
                  prev, other, pure, script >>

(* ------------------------------------------------------------------ *)
(* Environment of the program                                          *)
(* ------------------------------------------------------------------ *)
\* the platform finishes a pending task; a successful generation adds the collection.
\* The end of a task shows only in the collections of the workspace and to a poller,
\* so a task that nobody polls is followed only when it can add a collection.
RemoteCompleteTask ==
  \E i \in 1..Len(rTasks), outcome \in {"success", "failed"} :
    /\ rTasks[i].status = "pending"
    /\ \/ pc \in {"sync_poll", "gen_poll"} /\ taskUrl = i
       \/ rTasks[i].kind = "gen" /\ outcome = "success"
    /\ IF rTasks[i].kind = "gen" /\ outcome = "success"
       THEN /\ rCols' = Append(rCols, [uid |-> nextId, name |-> collectionName,
                                       spec |-> rTasks[i].spec])
            /\ nextId' = nextId + 1
            /\ rTasks' = [rTasks EXCEPT ![i].status = outcome, ![i].col = nextId]
       ELSE /\ rTasks' = [rTasks EXCEPT ![i].status = outcome]
            /\ UNCHANGED << rCols, nextId >>
    /\ prev' = IF pc \in {"idle", "done"} THEN [Ended EXCEPT !.quiet = FALSE] ELSE prev
    /\ UNCHANGED << rSpecs, rEnvs, file, pc, inputs, locals, calls, hits, lastCall, sent,
                    exitCode, other, pure, script >>

\* between two runs the state file is lost (fresh checkout, deleted by hand); the
\* process of the last run is gone
DeleteStateFile ==
  /\ pc = "done"
  /\ runs < MaxRuns
  /\ file.exists
  /\ file' = NoFile
  /\ prev' = Ended
  /\ pc' = "idle"
  /\ state' = EmptyFn /\ cached' = EmptyEntry /\ entry' = EmptyEntry
  /\ specId' = None /\ collectionUid' = None
  /\ taskUrl' = None /\ polls' = 0 /\ last' = NoTask /\ taskResult' = NoTask
  /\ generatedCollectionUid' = None
  /\ envIdx' = 0 /\ createdEnvs' = EmptyFn
  /\ calls' = NoCalls /\ hits' = NoCalls /\ lastCall' = NoCall /\ sent' = NoSent
  /\ exitCode' = "none"
  /\ UNCHANGED << remote, inputs, other, pure, script >>

\* between two runs the state file is replaced by something main did not write: text
\* that is not JSON (a truncated write, a merge conflict) or JSON without an entries
\* mapping (an empty object, null); the process of the last run is gone
DamageStateFile ==
  /\ pc \in {"idle", "done"}
  /\ runs < MaxRuns
  /\ \E form \in {"text", "json"} :
       file' = [exists |-> TRUE, form |-> form, entries |-> EmptyFn]
  /\ prev' = Ended
  /\ pc' = "idle"
  /\ state' = EmptyFn /\ cached' = EmptyEntry /\ entry' = EmptyEntry
  /\ specId' = None /\ collectionUid' = None
  /\ taskUrl' = None /\ polls' = 0 /\ last' = NoTask /\ taskResult' = NoTask
  /\ generatedCollectionUid' = None
  /\ envIdx' = 0 /\ createdEnvs' = EmptyFn
  /\ calls' = NoCalls /\ hits' = NoCalls /\ lastCall' = NoCall /\ sent' = NoSent
  /\ exitCode' = "none"
  /\ UNCHANGED << remote, inputs, other, pure, script >>

\* someone deletes a spec or a collection of the workspace between two runs
RemoteDelete ==
  /\ pc \in {"idle", "done"}
  /\ runs < MaxRuns
  /\ \/ \E i \in 1..Len(rSpecs) :
          /\ rSpecs' = SubSeq(rSpecs, 1, i - 1) \o SubSeq(rSpecs, i + 1, Len(rSpecs))
          /\ UNCHANGED rCols
     \/ \E i \in 1..Len(rCols) :
          /\ rCols' = SubSeq(rCols, 1, i - 1) \o SubSeq(rCols, i + 1, Len(rCols))
          /\ UNCHANGED rSpecs
  /\ prev' = [Ended EXCEPT !.quiet = FALSE]
  /\ UNCHANGED << rEnvs, rTasks, nextId, file, pc, inputs, locals, calls, hits, lastCall, sent,
                  exitCode, other, pure, script >>

(* ------------------------------------------------------------------ *)
(* A second run of the script on the same state file                   *)
(* ------------------------------------------------------------------ *)
\* where main is when the second run touches the file
Phase == IF pc = "idle" THEN "before" ELSE IF pc = "done" THEN "after" ELSE "during"

\* the second run: const state = loadState(stateFile)
OtherLoad ==
  /\ other.pc = "off"
  /\ HasEntries
  /\ \E k \in Keys :
       other' = [pc |-> "loaded", key |-> k, state |-> loadState, exit |-> "none",
                 loadedAt |-> Phase, savedAt |-> "never"]
  /\ UNCHANGED << remote, file, pc, inputs, locals, calls, hits, lastCall, sent, exitCode,
                  prev, pure, script >>

\* the second run without a cached specId: the spec found by name or created, then
\* entry.specId = specId; state.entries[entryKey] = entry; saveState(stateFile, state)
OtherRecordSpec ==
  /\ other.pc = "loaded"
  /\ EntryOf(other.state, other.key).specId = None
  /\ LET found == findSpecByName(TRUE)
         doc == Put(other.state, other.key,
                    [EntryOf(other.state, other.key) EXCEPT
                       !.specId = IF found # None THEN found ELSE nextId])
     IN /\ IF found # None
           THEN UNCHANGED << rSpecs, nextId >>
           ELSE /\ rSpecs' = Append(rSpecs, [id |-> nextId, name |-> specName])
                /\ nextId' = nextId + 1
        /\ other' = [other EXCEPT !.pc = "spec", !.state = doc]
        /\ saveState(doc)
  /\ UNCHANGED << rCols, rEnvs, rTasks, pc, inputs, locals, calls, hits, lastCall, sent,
                  exitCode, prev, pure, script >>

\* the second run to its end: the collection cached, found by name or generated,
\* then state.entries[entryKey] = entry; saveState(stateFile, state); exit 0
OtherFinish ==
  /\ other.pc \in {"loaded", "spec"}
  /\ EntryOf(other.state, other.key).specId # None
  /\ LET e == EntryOf(other.state, other.key)
         known == Or(e.collectionUid, FoundCollectionUid)
         doc == Put(other.state, other.key,
                    [e EXCEPT !.collectionUid = IF known # None THEN known ELSE nextId])
     IN /\ IF known # None
           THEN UNCHANGED << rCols, nextId >>
           ELSE /\ rCols' = Append(rCols, [uid |-> nextId, name |-> collectionName,
                                           spec |-> e.specId])
                /\ nextId' = nextId + 1
        /\ other' = [other EXCEPT !.pc = "done", !.state = doc, !.exit = 0,
                                  !.savedAt = Phase]
        /\ saveState(doc)
  /\ UNCHANGED << rSpecs, rEnvs, rTasks, pc, inputs, locals, calls, hits, lastCall, sent,
                  exitCode, prev, pure, script >>

\* the second run fails at a remote call: catch (err) { process.exit(1) }
OtherFail ==
  /\ other.pc \in {"loaded", "spec"}
  /\ other' = [other EXCEPT !.pc = "done", !.exit = 1]
  /\ UNCHANGED << remote, file, pc, inputs, locals, calls, hits, lastCall, sent, exitCode,
                  prev, pure, script >>

Next ==
  \/ StartRun
  \/ RejectRun
  \/ FindSpec
  \/ CreateSpec
  \/ PatchSpec
  \/ SpecCollections
  \/ FindCollection
  \/ FindCollectionGlobal
  \/ Sync
  \/ SyncPoll
  \/ SyncCheck
  \/ Generate
  \/ GenPoll
  \/ GenCheck
  \/ GenLookup
  \/ GenLookupGlobal
  \/ GenAssign
  \/ EnvPut
  \/ EnvPost
  \/ RemoteCompleteTask
  \/ DeleteStateFile

Spec == Init /\ [][Next]_vars

\* the runs in a workspace whose assets other users delete
NextDrift == Next \/ RemoteDelete

SpecDrift == Init /\ [][NextDrift]_vars

\* the runs with a state file that is not always the one main wrote
NextFile == Next \/ DamageStateFile

SpecFile == Init /\ [][NextFile]_vars

\* between two runs another tool of the pipeline records a content hash in an entry of
\* the state file, in the documented property lastSpecSha
StampStateFile ==
  /\ pc = "done"
  /\ runs < MaxRuns
  /\ HasEntries
  /\ \E k \in DOMAIN file.entries, sha \in {fileSha, staleSha} :
       /\ file.entries[k].lastSpecSha = NoSha
       /\ file' = [file EXCEPT !.entries[k].lastSpecSha = sha]
  /\ prev' = [Ended EXCEPT !.quiet = FALSE]
  /\ UNCHANGED << remote, pc, inputs, locals, calls, hits, lastCall, sent, exitCode,
                  other, pure, script >>

\* the runs with a state file whose entries carry a content hash
NextSha == Next \/ StampStateFile

SpecSha == Init /\ [][NextSha]_vars

\* runs without overrides and without environments
NextPoll ==
  \/ /\ StartRun
     /\ args'.specId = None /\ args'.collectionUid = None
     /\ envN' = 0
  \/ FindSpec
  \/ CreateSpec
  \/ PatchSpec
  \/ SpecCollections
  \/ FindCollection
  \/ FindCollectionGlobal
  \/ Sync
  \/ SyncPoll
  \/ SyncCheck
  \/ Generate
  \/ GenPoll
  \/ GenCheck
  \/ GenLookup
  \/ GenLookupGlobal
  \/ GenAssign
  \/ RemoteCompleteTask

\* the number of enabled descriptors of a service with several environments
MaxLoopEnvs == 2

\* runs of a service with several environments, without overrides and polling
NextEnvs ==
  \/ /\ StartRunWith({MaxLoopEnvs})
     /\ args'.specId = None /\ args'.collectionUid = None /\ ~args'.poll
     /\ entryKey' = "demo:svc:dev"
  \/ FindSpec
  \/ CreateSpec
  \/ PatchSpec
  \/ SpecCollections
  \/ FindCollection
  \/ FindCollectionGlobal
  \/ Sync
  \/ Generate
  \/ GenPoll
  \/ GenCheck
  \/ GenLookup
  \/ GenLookupGlobal
  \/ GenAssign
  \/ EnvPut
  \/ EnvPost
  \/ RemoteCompleteTask

SpecEnvs == Init /\ [][NextEnvs]_vars

\* the same runs when every awaited task fetch returns: a poll loop that can go on
\* does go on
SpecPoll == Init /\ [][NextPoll]_vars /\ WF_vars(SyncPoll) /\ WF_vars(GenPoll)

(* ------------------------------------------------------------------ *)
(* key: the state file key of a {domain, service, stage}               *)
(* ------------------------------------------------------------------ *)
\* every variable of a run of main
program == << remote, file, pc, inputs, locals, calls, hits, lastCall, sent, exitCode,
             prev, other >>

\* the length of the longest component string
MaxLen == 2

\* the characters of a component: a letter, the separator, a whitespace character
KeyChars == {"a", ":", " "}

\* the strings of at most n characters, a string being the sequence of its characters
RECURSIVE StringsUpTo(_)
StringsUpTo(n) ==
  IF n = 0 THEN {<< >>}
  ELSE LET shorter == StringsUpTo(n - 1)
       IN shorter \cup {Append(w, c) : w \in shorter, c \in KeyChars}

\* the rest of a string after its leading whitespace
RECURSIVE SkipSpace(_)
SkipSpace(w) == IF w # << >> /\ Head(w) = " " THEN SkipSpace(Tail(w)) ELSE w

\* w.replace(/\s+/g, '_'): every run of whitespace becomes one underscore
RECURSIVE ReplaceSpace(_)
ReplaceSpace(w) ==
  IF w = << >> THEN << >>
  ELSE IF Head(w) = " " THEN << "_" >> \o ReplaceSpace(SkipSpace(w))
  ELSE << Head(w) >> \o ReplaceSpace(Tail(w))

\* (domain || 'demo'): the empty string is falsy
DomainOr(domain) == IF domain = << >> THEN << "d", "e", "m", "o" >> ELSE domain

sanitizedDomain(domain) == ReplaceSpace(DomainOr(domain))

\* `${sanitizedDomain}:${sanitizedService}:${sanitizedStage}`
key(domain, service, stage) ==
  sanitizedDomain(domain) \o << ":" >> \o ReplaceSpace(service) \o << ":" >> \o ReplaceSpace(stage)

\* one call of key, on a domain that may be empty and the service and stage main lets
\* through (main rejects an empty service or stage)
KeyStep ==
  /\ \E domain \in StringsUpTo(MaxLen), service, stage \in StringsUpTo(MaxLen) \ {<< >>} :
       pure' = [fn |-> "key", in |-> << domain, service, stage >>,
                out |-> key(domain, service, stage), threw |-> FALSE]
  /\ UNCHANGED << program, script >>

SpecKey == Init /\ [][KeyStep]_vars

(* ------------------------------------------------------------------ *)
(* transformSpecForPostman: the exported document made importable      *)
(* ------------------------------------------------------------------ *)
\* the longest tags array
MaxTags == 2

\* 'aws:' and 'httpapi:', character by character
awsPrefix == << "a", "w", "s", ":" >>
httpapiPrefix == << "h", "t", "t", "p", "a", "p", "i", ":" >>

\* w.startsWith(prefix)
startsWith(w, prefix) == Len(w) >= Len(prefix) /\ SubSeq(w, 1, Len(prefix)) = prefix

\* tag names: empty, with a reserved prefix, the bare prefix, near misses, unrelated
TagNames ==
  { << >>,
    awsPrefix \o << "i" >>,
    awsPrefix,
    << "a", "w", "s" >>,
    httpapiPrefix \o << "x" >>,
    << "A", "W", "S", ":" >>,
    << "p", "u", "b" >> }

\* a tag object; hasName is FALSE when the object has no name property
Tags ==
  {[hasName |-> FALSE, name |-> << >>]} \cup {[hasName |-> TRUE, name |-> n] : n \in TagNames}

TagLists == UNION {[1..n -> Tags] : n \in 0..MaxTags}

\* the tags property of a document: absent, an array, or an object that is not an array
TagFields ==
  {[has |-> FALSE, isArray |-> FALSE, list |-> << >>],
   [has |-> TRUE, isArray |-> FALSE, list |-> << >>]}
    \cup {[has |-> TRUE, isArray |-> TRUE, list |-> l] : l \in TagLists}

\* a filter that knows the 'aws:' prefix only
keepTag_AwsOnly(tag) ==
  /\ tag.hasName /\ tag.name # << >>
  /\ ~startsWith(tag.name, awsPrefix)

\* tag => tag.name && !tag.name.startsWith('aws:') && !tag.name.startsWith('httpapi:')
keepTag(tag) ==
  /\ tag.hasName /\ tag.name # << >>
  /\ ~startsWith(tag.name, awsPrefix)
  /\ ~startsWith(tag.name, httpapiPrefix)

\* the x-amazon-apigateway-any-method property of a path item: absent, an object without
\* responses, an object with responses {201}, an object with responses {}
NoAny == [present |-> FALSE, declares |-> FALSE, responses |-> {}]

AnyValues ==
  { NoAny,
    [present |-> TRUE, declares |-> FALSE, responses |-> {}],
    [present |-> TRUE, declares |-> TRUE, responses |-> {"201"}],
    [present |-> TRUE, declares |-> TRUE, responses |-> {}] }

\* the keys of a path item that hold an operation or something else that is not a method
MethodKeys == {"get", "POST", "trace"}

\* method.toLowerCase(), on the keys above
toLowerCase(method) == IF method = "POST" THEN "post" ELSE method

\* variant: the method name is compared as it is written
recognized_AsWritten(method) ==
  method \in {"get", "post", "put", "patch", "delete", "head", "options"}

\* ['get', 'post', 'put', 'patch', 'delete', 'head', 'options'].includes(method.toLowerCase())
recognized(method) ==
  toLowerCase(method) \in {"get", "post", "put", "patch", "delete", "head", "options"}

\* an operation of the export, with both AWS operation extensions
DeclaredOp(method) ==
  [summary |-> method, parameters |-> << >>, responses |-> {"200"}, requestBody |-> FALSE,
   integration |-> TRUE, validator |-> TRUE]

\* the parameters property of a path item: absent, [], or one parameter with the AWS
\* parameter extension
ParameterFields ==
  { [has |-> FALSE, list |-> << >>],
    [has |-> TRUE, list |-> << >>],
    [has |-> TRUE, list |-> << [name |-> "id", awsParam |-> TRUE] >>] }

\* a path item that is null (in YAML, a path with nothing under it)
NullItem ==
  [isNull |-> TRUE, any |-> NoAny, ops |-> EmptyFn, hasParameters |-> FALSE,
   parameters |-> << >>, ext |-> FALSE]

\* a path item; ext is a path-level vendor extension
PathItems ==
  { [isNull |-> FALSE, any |-> a, ops |-> [m \in S |-> DeclaredOp(m)],
     hasParameters |-> q.has, parameters |-> q.list, ext |-> x] :
      a \in AnyValues, S \in SUBSET MethodKeys, q \in ParameterFields, x \in BOOLEAN }
    \cup {NullItem}

PathNames == {"/p"}

\* the paths property of a document: absent, a non-empty string, or an object
PathFields ==
  {[has |-> FALSE, isObject |-> FALSE, map |-> EmptyFn],
   [has |-> TRUE, isObject |-> FALSE, map |-> EmptyFn]}
    \cup {[has |-> TRUE, isObject |-> TRUE, map |-> m] :
            m \in UNION {[S -> PathItems] : S \in SUBSET PathNames}}

\* the longest servers array
MaxServers == 1

\* server.url as its pieces: absent (no pieces), without and with the {basePath} template
Urls == { << "https://host/" >>, << "https://host/", "{basePath}" >> }

\* w.replace(from, to) with a string pattern: the first occurrence only
RECURSIVE replace(_, _, _)
replace(w, from, to) ==
  IF w = << >> THEN << >>
  ELSE IF Head(w) = from THEN << to >> \o Tail(w)
  ELSE << Head(w) >> \o replace(Tail(w), from, to)

\* w.includes(piece)
includes(w, piece) == \E i \in 1..Len(w) : w[i] = piece

\* server.variables: absent, or an object with some of basePath (default '' or 'dev')
\* and region
VariableFields ==
  {[has |-> FALSE, vars |-> EmptyFn]}
    \cup {[has |-> TRUE, vars |-> [n \in S |-> [default |-> IF n = "basePath" THEN d ELSE "us"]]] :
            S \in SUBSET {"basePath", "region"}, d \in {"", "dev"}}

\* a server object
Servers ==
  { [hasUrl |-> TRUE, url |-> u, hasVariables |-> x.has, variables |-> x.vars] :
      u \in Urls, x \in VariableFields }
    \cup { [hasUrl |-> FALSE, url |-> << >>, hasVariables |-> x.has, variables |-> x.vars] :
             x \in VariableFields }

\* the servers property of a document: absent, an object that is not an array, an array
ServerFields ==
  {[has |-> FALSE, isArray |-> FALSE, list |-> << >>],
   [has |-> TRUE, isArray |-> FALSE, list |-> << >>]}
    \cup {[has |-> TRUE, isArray |-> TRUE, list |-> l] :
            l \in UNION {[1..n -> Servers] : n \in 0..MaxServers}}

NoServers == [has |-> FALSE, isArray |-> FALSE, list |-> << >>]

NoTags == [has |-> FALSE, isArray |-> FALSE, list |-> << >>]

Doc(c, v, t, q, s) ==
  [cors |-> c, version |-> v,
   hasTags |-> t.has, tagsIsArray |-> t.isArray, tags |-> t.list,
   hasPaths |-> q.has, pathsIsObject |-> q.isObject, paths |-> q.map,
   hasServers |-> s.has, serversIsArray |-> s.isArray, servers |-> s.list]

\* the exported documents without servers
Docs ==
  { Doc(c, v, t, q, NoServers) :
      c \in BOOLEAN, v \in BOOLEAN, t \in TagFields, q \in PathFields }

\* the exported documents with servers: the three steps of the transformation read
\* different properties, so the servers vary in documents without root extensions and tags
ServerDocs ==
  { Doc(FALSE, FALSE, NoTags, q, s) : q \in PathFields, s \in ServerFields \ {NoServers} }

\* responses that are always the default pair
proxyResponses_Default(anyMethod) == {"200", "500"}

\* anyMethod.responses || { '200': ..., '500': ... }: an empty object is truthy
proxyResponses(anyMethod) ==
  IF anyMethod.declares THEN anyMethod.responses ELSE {"200", "500"}

\* cleanPathItem.post and cleanPathItem.get of a proxy route
proxyOps(pathItem) ==
  [m \in {"post", "get"} |->
     [summary |-> "Proxy route",
      parameters |-> IF m = "post" THEN pathItem.parameters
                     ELSE Append(pathItem.parameters, [name |-> "query", awsParam |-> FALSE]),
      responses |-> proxyResponses(pathItem.any),
      requestBody |-> (m = "post"),
      integration |-> FALSE, validator |-> FALSE]]

\* the operations under a recognized method, without the two AWS operation extensions
copiedOps(pathItem) ==
  [m \in {k \in DOMAIN pathItem.ops : recognized(k)} |->
     [pathItem.ops[m] EXCEPT !.integration = FALSE, !.validator = FALSE]]

\* cleanPathItem at the end of the loop body
cleanPathItem(pathItem) ==
  [ops |-> IF pathItem.any.present THEN proxyOps(pathItem) ELSE copiedOps(pathItem),
   hasParameters |-> pathItem.hasParameters,
   parameters |-> [i \in 1..Len(pathItem.parameters) |->
                     [pathItem.parameters[i] EXCEPT !.awsParam = FALSE]]]

\* Object.keys(cleanPathItem).length
keyCount(clean) == Cardinality(DOMAIN clean.ops) + (IF clean.hasParameters THEN 1 ELSE 0)

transformedPaths(paths) ==
  [q \in {r \in DOMAIN paths : keyCount(cleanPathItem(paths[r])) > 0} |->
     cleanPathItem(paths[q])]

\* the server simplified: with a basePath variable whose default is not empty and a url
\* that holds the template, the template is filled in and the variable removed, and
\* the variables object too when nothing is left in it
cleanedServer(server) ==
  IF /\ server.hasVariables /\ "basePath" \in DOMAIN server.variables
     /\ server.variables["basePath"].default # ""
     /\ includes(server.url, "{basePath}")
  THEN LET rest == [n \in DOMAIN server.variables \ {"basePath"} |-> server.variables[n]]
       IN [server EXCEPT !.url = replace(server.url, "{basePath}",
                                         server.variables["basePath"].default),
                         !.hasVariables = (DOMAIN rest # {}),
                         !.variables = rest]
  ELSE server

\* cleaned.url.includes(...) is reached with cleaned.url undefined: a TypeError
serverThrows(server) ==
  /\ server.hasVariables /\ "basePath" \in DOMAIN server.variables
  /\ server.variables["basePath"].default # ""
  /\ ~server.hasUrl

\* pathItem['x-amazon-apigateway-any-method'] is read from null: a TypeError
pathItemThrows(pathItem) == pathItem.isNull

\* the call ends with a TypeError instead of a document
transformThrows(specObj) ==
  \/ /\ specObj.hasPaths /\ specObj.pathsIsObject
     /\ \E q \in DOMAIN specObj.paths : pathItemThrows(specObj.paths[q])
  \/ /\ specObj.hasServers /\ specObj.serversIsArray
     /\ \E i \in 1..Len(specObj.servers) : serverThrows(specObj.servers[i])

\* the document returned when no step throws; Object.entries of a string of one
\* character gives no path item that is kept, so a string paths becomes {}
transformSpecForPostman(specObj) ==
  [cors |-> FALSE, version |-> FALSE,
   hasTags |-> specObj.hasTags,
   tagsIsArray |-> specObj.tagsIsArray,
   tags |-> IF specObj.hasTags /\ specObj.tagsIsArray
            THEN SelectSeq(specObj.tags, keepTag) ELSE specObj.tags,
   hasPaths |-> specObj.hasPaths,
   pathsIsObject |-> specObj.hasPaths,
   paths |-> IF specObj.hasPaths /\ specObj.pathsIsObject
             THEN transformedPaths(specObj.paths) ELSE EmptyFn,
   hasServers |-> specObj.hasServers,
   serversIsArray |-> specObj.serversIsArray,
   servers |-> IF specObj.hasServers /\ specObj.serversIsArray
               THEN [i \in 1..Len(specObj.servers) |-> cleanedServer(specObj.servers[i])]
               ELSE specObj.servers]

\* one call of transformSpecForPostman: it returns a document or throws
TransformStep ==
  /\ pure.fn = "none"
  /\ \E specObj \in Docs \cup ServerDocs :
       pure' = IF transformThrows(specObj)
               THEN [fn |-> "transform", in |-> specObj, out |-> << >>, threw |-> TRUE]
               ELSE [fn |-> "transform", in |-> specObj,
                     out |-> transformSpecForPostman(specObj), threw |-> FALSE]
  /\ UNCHANGED << program, script >>

SpecTransform == Init /\ [][TransformStep]_vars

(* ------------------------------------------------------------------ *)
(* enrichSpecWithEnvironments: one templated server entry              *)
(* ------------------------------------------------------------------ *)
\* the longest environments array of a service
MaxDescs == 2

\* {apiId}, {region}, {stage}
Placeholders == {"apiId", "region", "stage"}

\* the values of a property of a descriptor; "" is a missing or empty value
ValuesOf(placeholder) ==
  IF placeholder = "apiId" THEN {"", "a1", "a2"}
  ELSE IF placeholder = "region" THEN {"", "us", "eu"}
  ELSE {"", "dev", "prod"}

\* the environment descriptors of config.services[service].environments
Descriptors ==
  { [apiId |-> a, region |-> r, stage |-> t, enabled |-> b] :
      a \in ValuesOf("apiId"), r \in ValuesOf("region"), t \in ValuesOf("stage"),
      b \in BOOLEAN }

\* every descriptor, disabled ones too
getServiceEnvironments_All(environments) == environments

\* (serviceConfig.environments || []).filter(env => env.enabled !== false)
getServiceEnvironments(environments) == SelectSeq(environments, LAMBDA env : env.enabled)

\* [...new Set(values)]: the distinct values in the order of their first occurrence
RECURSIVE Distinct(_)
Distinct(values) ==
  IF values = << >> THEN << >>
  ELSE LET front == Distinct(SubSeq(values, 1, Len(values) - 1))
           v == values[Len(values)]
       IN IF \E i \in 1..Len(front) : front[i] = v THEN front ELSE Append(front, v)

\* envs.map(e => e[property])
Column(envs, property) ==
  [i \in 1..Len(envs) |->
     IF property = "apiId" THEN envs[i].apiId
     ELSE IF property = "region" THEN envs[i].region ELSE envs[i].stage]

\* serverEntry.variables[placeholder]
ServerVariable(envs, placeholder) ==
  IF placeholder = "apiId"
  THEN LET apiIds == Distinct(SelectSeq(Column(envs, "apiId"), LAMBDA v : v # ""))
       IN [default |-> IF apiIds # << >> THEN apiIds[1] ELSE "API_ID",
           hasEnum |-> Len(apiIds) > 1,
           enum |-> IF Len(apiIds) > 1 THEN apiIds ELSE << >>]
  ELSE LET values == Distinct(Column(envs, placeholder))
       IN [default |-> values[1], hasEnum |-> TRUE, enum |-> values]

\* the servers block after the call: left alone without enabled descriptors, else one
\* entry with a variable for every placeholder of the url pattern
enrichSpecWithEnvironments(urlPattern, environments) ==
  LET envs == getServiceEnvironments(environments)
  IN IF envs = << >>
     THEN [enriched |-> FALSE, variables |-> EmptyFn]
     ELSE [enriched |-> TRUE,
           variables |-> [q \in urlPattern |-> ServerVariable(envs, q)]]

\* one call of enrichSpecWithEnvironments; the url pattern is the set of its placeholders
EnrichStep ==
  /\ pure.fn = "none"
  /\ \E urlPattern \in SUBSET Placeholders,
        environments \in UNION {[1..n -> Descriptors] : n \in 0..MaxDescs} :
       pure' = [fn |-> "enrich",
                in |-> [urlPattern |-> urlPattern, environments |-> environments],
                out |-> enrichSpecWithEnvironments(urlPattern, environments),
                threw |-> FALSE]
  /\ UNCHANGED << program, script >>

SpecEnrich == Init /\ [][EnrichStep]_vars

\* one run of main, without overrides and environments, and a second run of the
\* script that share the state file, their steps interleaved at the awaits
NextConc ==
  \/ StartRun /\ runs = 0 /\ envN' = 0 /\ args'.specId = None /\ args'.collectionUid = None
  \/ FindSpec
  \/ CreateSpec
  \/ PatchSpec
  \/ SpecCollections
  \/ FindCollection
  \/ FindCollectionGlobal
  \/ Sync
  \/ SyncPoll
  \/ SyncCheck
  \/ Generate
  \/ GenPoll
  \/ GenCheck
  \/ GenLookup
  \/ GenLookupGlobal
  \/ GenAssign
  \/ RemoteCompleteTask
  \/ OtherLoad
  \/ OtherRecordSpec
  \/ OtherFinish
  \/ OtherFail

SpecConc == Init /\ [][NextConc]_vars

\* the generated-collections tier on its own: a run with the cached spec 1 that has
\* just patched it, in a workspace whose collections were generated from the spec
\* or not and carry the constructed name or, renamed by a user, another one
ColNames == {collectionName, "renamed"}

InitPick ==
  /\ \E n \in 0..MaxCols, f \in [1..MaxCols -> ColNames \X {None, 1}] :
       /\ rCols = [i \in 1..n |-> [uid |-> i + 1, name |-> f[i][1], spec |-> f[i][2]]]
       /\ \A i \in (n + 1)..MaxCols : f[i] = << collectionName, None >>
       /\ nextId = n + 2
  /\ rSpecs = << [id |-> 1, name |-> specName] >>
  /\ rEnvs = << >> /\ rTasks = << >>
  /\ file = [exists |-> TRUE, form |-> "entries",
             entries |-> Put(EmptyFn, "demo:svc:dev", [EmptyEntry EXCEPT !.specId = 1])]
  /\ pc = "spec_cols"
  /\ runs = 1
  /\ entryKey = "demo:svc:dev"
  /\ args = [specId |-> None, collectionUid |-> None, poll |-> FALSE]
  /\ envN = 0
  /\ input = "ok"
  /\ prev = NoPrev
  /\ other = NoOther
  /\ pure = NoPure
  /\ script = NoScript
  /\ state = file.entries
  /\ cached = [EmptyEntry EXCEPT !.specId = 1]
  /\ entry = [EmptyEntry EXCEPT !.specId = 1]
  /\ specId = 1 /\ collectionUid = None
  /\ taskUrl = None /\ polls = 0 /\ last = NoTask /\ taskResult = NoTask
  /\ generatedCollectionUid = None
  /\ envIdx = 0 /\ createdEnvs = EmptyFn
  /\ calls = [NoCalls EXCEPT !["patchSpecFile"] = 1]
  /\ hits = NoCalls
  /\ lastCall = Call("patchSpecFile", 1, None, TRUE)
  /\ sent = [spec |-> {1}, col |-> {}]
  /\ exitCode = "none"

NextPick == SpecCollections

SpecPick == InitPick /\ [][NextPick]_vars

(* ================================================================== *)
(* Properties                                                          *)
(* ================================================================== *)
\* calls that carry the spec id of the run
SpecOps == {"patchSpecFile", "getSpecCollections", "syncCollection", "generateCollection"}

\* main is past the resolution of collectionUid's first two tiers (cache, override)
PastPatch ==
  \/ pc \in {"spec_cols", "find_col", "find_col_global", "sync", "sync_poll", "sync_check",
             "generate", "gen_poll", "gen_check", "gen_lookup", "gen_lookup_global",
             "gen_assign", "env_put", "env_post"}
  \/ pc = "done" /\ exitCode = 0

\* the entry of the run's key in the state file on disk
Saved == IF file.exists /\ entryKey \in DOMAIN file.entries
         THEN file.entries[entryKey] ELSE EmptyEntry

\* C1, as stated: when --spec-id and a different cached entry.specId are both
\* present, every call of the run that carries a spec id carries the override.
C1_OverrideSpecIdUsed ==
  (cached.specId # None /\ args.specId # None /\ cached.specId # args.specId
     /\ lastCall.op \in SpecOps)
  => lastCall.spec = args.specId

\* C1, amended: the spec id of a run is chosen by cached state value > operator
\* override > lookup by name > create.  A cached id is the one every call carries,
\* also when a different override is given; with a cached id or an override there is
\* no lookup and no create; a create follows one lookup that found nothing.
C1_CachedSpecIdFirst ==
  /\ lastCall.op \in SpecOps => lastCall.spec = specId
  /\ (pc # "idle" /\ input = "ok" /\ cached.specId # None)
       => (specId = cached.specId /\ calls["listSpecs"] = 0 /\ calls["createSpec"] = 0)
  /\ (pc # "idle" /\ input = "ok" /\ cached.specId = None /\ args.specId # None)
       => (specId = args.specId /\ calls["listSpecs"] = 0 /\ calls["createSpec"] = 0)
  /\ calls["listSpecs"] <= 1
  /\ calls["createSpec"] <= calls["listSpecs"]
  /\ (lastCall.op = "listSpecs" /\ lastCall.found # None)
       => (specId = lastCall.found /\ pc = "patch")
  /\ (lastCall.op = "listSpecs" /\ lastCall.found = None) => pc = "create_spec"

C1_Witness ==
  /\ lastCall.op = "patchSpecFile" /\ lastCall.ok
  /\ cached.specId # None /\ args.specId # None /\ cached.specId # args.specId
  /\ lastCall.spec = cached.specId

\* C2, as stated: when --collection-uid and a different cached entry.collectionUid
\* are both present, the override is the uid that is synced and saved.
C2_OverrideCollectionUsed ==
  (cached.collectionUid # None /\ args.collectionUid # None
     /\ cached.collectionUid # args.collectionUid)
  => /\ lastCall.op = "syncCollection" => lastCall.col = args.collectionUid
     /\ (pc = "done" /\ exitCode = 0) => Saved.collectionUid = args.collectionUid

\* C2, amended: collectionUid is chosen by cached state value > operator override >
\* the spec's generated collections > lookup by name, stopping at the first tier
\* that yields a value; a cached uid is the one synced and saved, also when a
\* different override is given.
C2_CachedCollectionFirst ==
  /\ lastCall.op = "syncCollection" => lastCall.col = collectionUid
  /\ (PastPatch /\ cached.collectionUid # None)
       => (collectionUid = cached.collectionUid /\ calls["getSpecCollections"] = 0
           /\ calls["listCollections"] = 0 /\ calls["generateCollection"] = 0)
  /\ (PastPatch /\ cached.collectionUid = None /\ args.collectionUid # None)
       => (collectionUid = args.collectionUid /\ calls["getSpecCollections"] = 0
           /\ calls["listCollections"] = 0 /\ calls["generateCollection"] = 0)
  /\ calls["listCollections"] > 0 => calls["getSpecCollections"] = 1
  /\ (lastCall.op = "getSpecCollections" /\ lastCall.found # None)
       => (collectionUid = lastCall.found /\ pc = "sync" /\ calls["listCollections"] = 0)
  /\ (lastCall.op \in {"listCollections", "listCollectionsGlobal"}
        /\ lastCall.found # None /\ calls["generateCollection"] = 0)
       => (collectionUid = lastCall.found /\ pc = "sync")
  /\ (pc = "done" /\ exitCode = 0) => (collectionUid # None /\ Saved.collectionUid = collectionUid)

C2_Witness ==
  /\ pc = "done" /\ exitCode = 0
  /\ calls["syncCollection"] = 1
  /\ cached.collectionUid # None /\ args.collectionUid # None
  /\ cached.collectionUid # args.collectionUid
  /\ Saved.collectionUid = cached.collectionUid

\* C3: in a run that created the spec, from the create on (so before the PATCH and
\* every later call, and whichever step fails the run) the state file holds the
\* created id under the run's key.
C3_CreatedSpecSaved ==
  (calls["createSpec"] = 1 /\ specId # None)
  => (file.exists /\ entryKey \in DOMAIN file.entries
      /\ file.entries[entryKey].specId = specId)

C3_Witness ==
  /\ pc = "done" /\ exitCode = 1
  /\ calls["createSpec"] = 1 /\ specId # None
  /\ lastCall.op = "generateCollection"
  /\ Saved.specId = specId

\* C4, as stated: whatever the runs did, the workspace never holds more than one
\* spec and never more than one collection with the constructed name.
C4_NoDuplicates ==
  /\ Cardinality({i \in 1..Len(rSpecs) : rSpecs[i].name = specName}) <= 1
  /\ Cardinality({i \in 1..Len(rCols) : rCols[i].name = collectionName}) <= 1

NeitherTier ==
  /\ pc # "idle"
  /\ cached.collectionUid = None /\ args.collectionUid = None
  /\ calls["getSpecCollections"] = 1 /\ hits["getSpecCollections"] = 0

\* the first of the values in seq that is an identifier
RECURSIVE FirstOf(_)
FirstOf(seq) ==
  IF seq = << >> THEN None
  ELSE IF Head(seq) # None THEN Head(seq) ELSE FirstOf(Tail(seq))

\* the id, else the url tail, of the first resource of payload t whose url contains
\* '/collections/'
ResourceUid(t) ==
  LET cand == {i \in 1..Len(t.resources) : t.resources[i].col}
  IN IF cand = {} THEN None
     ELSE LET i == CHOOSE k \in cand : \A j \in cand : k <= j
          IN FirstOf(<< t.resources[i].id, t.resources[i].tail >>)

\* what a payload yields by the precedence resources, result.collection.uid,
\* collection.uid, result.uid, uid
PayloadUid(t) ==
  FirstOf(<< ResourceUid(t), t.resultCollectionUid, t.collectionUid, t.resultUid, t.uid >>)

\* C6, as stated: with a cached collectionUid no lookup endpoint is called; with a
\* match in the spec's generated collections the name lookup is not called; with
\* neither, the name lookup is called exactly once in the whole run.
C6_NameLookupOnce ==
  /\ (pc # "idle" /\ cached.collectionUid # None)
       => (calls["getSpecCollections"] = 0 /\ calls["listCollections"] = 0
           /\ calls["listCollectionsGlobal"] = 0)
  /\ hits["getSpecCollections"] >= 1
       => (calls["listCollections"] = 0 /\ calls["listCollectionsGlobal"] = 0)
  /\ NeitherTier => calls["listCollections"] <= 1
  /\ (NeitherTier /\ pc = "done" /\ exitCode = 0) => calls["listCollections"] = 1

\* C6, amended: with a cached collectionUid no lookup endpoint is called; with a
\* match in the spec's generated collections the name lookup is not called; with
\* neither, the name lookup is made once during resolution and once more in the
\* generation branch exactly when the completed task's payload yields no
\* identifier; each lookup lists the workspace's collections once and lists all
\* collections only after that listing failed.
C6_LookupCounts ==
  /\ (pc # "idle" /\ cached.collectionUid # None)
       => (calls["getSpecCollections"] = 0 /\ calls["listCollections"] = 0
           /\ calls["listCollectionsGlobal"] = 0)
  /\ hits["getSpecCollections"] >= 1
       => (calls["listCollections"] = 0 /\ calls["listCollectionsGlobal"] = 0)
  /\ NeitherTier =>
       /\ pc = "find_col" => calls["listCollections"] = 0
       /\ (pc # "find_col" /\ calls["generateCollection"] = 0) => calls["listCollections"] = 1
       /\ pc \in {"gen_poll", "gen_check"} => calls["listCollections"] = 1
       /\ pc = "gen_lookup" => (PayloadUid(taskResult) = None /\ calls["listCollections"] = 1)
       /\ pc = "gen_lookup_global"
            => (PayloadUid(taskResult) = None /\ calls["listCollections"] = 2)
       /\ pc = "gen_assign"
            => calls["listCollections"] = IF PayloadUid(taskResult) = None THEN 2 ELSE 1
       /\ calls["listCollections"] \in 0..2
  /\ calls["listCollections"] > 0 => NeitherTier
  /\ calls["listCollectionsGlobal"] <= calls["listCollections"]
  /\ (lastCall.op = "listCollections" /\ lastCall.ok) =>
       calls["listCollectionsGlobal"] < calls["listCollections"]

C6_Witness ==
  /\ NeitherTier
  /\ pc = "done" /\ exitCode = 0
  /\ calls["generateCollection"] = 1
  /\ calls["listCollections"] = 2
  /\ calls["listCollectionsGlobal"] = 0

\* C7: a generation request answered with 202 and its task is followed by exactly
\* one poll of that task, with or without --poll; a sync request of a run without
\* --poll is followed by no fetch of its task.
C7_GenerationAlwaysPolled ==
  /\ (lastCall.op = "generateCollection" /\ lastCall.accepted /\ lastCall.url)
       => (pc = "gen_poll" /\ calls["pollTask"] = 1)
  /\ calls["pollTask"] <= 1
  /\ (calls["generateCollection"] = 1
        /\ (pc \in {"gen_check", "gen_lookup", "gen_lookup_global", "gen_assign",
                    "env_put", "env_post"}
            \/ (pc = "done" /\ exitCode = 0)))
       => (calls["pollTask"] = 1 /\ calls["taskFetch"] >= 1)
  /\ (calls["syncCollection"] >= 1 /\ ~args.poll)
       => (calls["pollTask"] = 0 /\ calls["taskFetch"] = 0)

C7_Witness ==
  /\ pc = "done" /\ exitCode = 0 /\ ~args.poll
  /\ calls["generateCollection"] = 1
  /\ calls["pollTask"] = 1 /\ calls["taskFetch"] = 2

\* C8, as stated: every run with --poll that takes the sync branch and exits 0 has
\* fetched the sync task at least once and last saw it as success or completed.
C8_PolledSyncVerified ==
  (pc = "done" /\ exitCode = 0 /\ args.poll /\ calls["syncCollection"] = 1)
  => (calls["taskFetch"] >= 1 /\ taskResult.status \in {"success", "completed"})

\* C8, amended: every run with --poll that takes the sync branch, gets a task url in
\* the sync answer and exits 0 has fetched the sync task at least once and last saw
\* it as success or completed; when the sync answer has no task url nothing is
\* fetched and the run goes on.
C8_PolledSyncWithTaskVerified ==
  (pc = "done" /\ exitCode = 0 /\ args.poll /\ calls["syncCollection"] = 1)
  => IF taskUrl # None
     THEN calls["pollTask"] = 1 /\ calls["taskFetch"] >= 1
          /\ taskResult.status \in {"success", "completed"}
     ELSE calls["pollTask"] = 0 /\ calls["taskFetch"] = 0

C8_Witness ==
  /\ pc = "done" /\ exitCode = 0 /\ args.poll
  /\ calls["syncCollection"] = 1 /\ taskUrl # None
  /\ calls["taskFetch"] = 2
  /\ taskResult.status = "completed"

\* C9: when the generate request is answered with a failure, with a status other
\* than 202 or without a task url, the run ends with exit 1, no task is polled or
\* fetched, and no collectionUid is in the state entry, in memory or on disk.
C9_GenerationNotStartedIsFatal ==
  (lastCall.op = "generateCollection" /\ ~(lastCall.accepted /\ lastCall.url))
  => /\ pc = "done" /\ exitCode = 1
     /\ calls["pollTask"] = 0 /\ calls["taskFetch"] = 0
     /\ collectionUid = None /\ entry.collectionUid = None
     /\ Saved.collectionUid = None

C9_Witness ==
  /\ lastCall.op = "generateCollection"
  /\ lastCall.ok /\ lastCall.accepted /\ ~lastCall.url
  /\ pc = "done" /\ exitCode = 1

\* C10: after a generation task that ended as success or completed the uid is the
\* first identifier among: the resource whose url contains '/collections/', then
\* result.collection.uid, collection.uid, result.uid, uid, then a lookup by name;
\* the lookup is made only if the payload yields nothing, and the run is fatal
\* exactly when the payload and the lookup both yield nothing.
C10_ExtractionPrecedence ==
  /\ (pc = "gen_assign" /\ lastCall.op = "taskFetch")
       => (PayloadUid(taskResult) # None /\ generatedCollectionUid = PayloadUid(taskResult))
  /\ (pc = "gen_assign" /\ lastCall.op # "taskFetch")
       => (/\ PayloadUid(taskResult) = None
           /\ lastCall.op \in {"listCollections", "listCollectionsGlobal"}
           /\ lastCall.found # None
           /\ generatedCollectionUid = lastCall.found)
  /\ pc \in {"gen_lookup", "gen_lookup_global"}
       => (PayloadUid(taskResult) = None /\ generatedCollectionUid = None)
  /\ (calls["generateCollection"] = 1 /\ calls["pollTask"] = 1
        /\ taskResult.status \in {"success", "completed"})
       => ((pc = "done" /\ exitCode = 1)
             <=> (/\ PayloadUid(taskResult) = None
                  /\ \/ lastCall.op = "listCollections" /\ lastCall.ok
                     \/ lastCall.op = "listCollectionsGlobal"
                  /\ lastCall.found = None))

C10_Witness ==
  /\ pc = "gen_assign" /\ lastCall.op = "taskFetch"
  /\ ResourceUid(taskResult) = None
  /\ taskResult.resultCollectionUid = None
  /\ taskResult.collectionUid # None
  /\ taskResult.uid # None /\ taskResult.uid # taskResult.collectionUid
  /\ generatedCollectionUid = taskResult.collectionUid

\* C11: pollTask returns the payload of its latest fetch. When that payload's
\* status is success, failed or completed in any letter case, every earlier fetch
\* was followed by a wait and this one is not (one fetch more than waits); otherwise
\* the deadline has passed (MaxPolls fetches, each followed by a wait), the payload
\* is the last one fetched and pollTask has not raised.
C11_PollReturn ==
  pc \in {"sync_check", "gen_check"} =>
    /\ exitCode = "none"
    /\ lastCall.op = "taskFetch" /\ lastCall.ok
    /\ taskResult = lastCall.data
    /\ IF taskResult.status \in {"success", "failed", "completed", "SUCCESS"}
       THEN calls["taskFetch"] = polls + 1
       ELSE calls["taskFetch"] = polls /\ polls = MaxPolls

C11_Witness ==
  /\ pc = "gen_check"
  /\ taskResult.status = "pending"
  /\ calls["taskFetch"] = MaxPolls
  /\ exitCode = "none"

\* C12, as stated: a cached specId or collectionUid that no longer exists remotely
\* is not what the run works with: the PATCH and the sync go to an id resolved by
\* the fallback, so the run does not fail on the stale id.
C12_StaleCacheReplaced ==
  /\ (lastCall.op = "patchSpecFile" /\ cached.specId # None
        /\ \A i \in 1..Len(rSpecs) : rSpecs[i].id # cached.specId)
       => lastCall.spec # cached.specId
  /\ (lastCall.op = "syncCollection" /\ cached.collectionUid # None
        /\ \A i \in 1..Len(rCols) : rCols[i].uid # cached.collectionUid)
       => lastCall.col # cached.collectionUid

(* ------------------------------------------------------------------ *)
(* C13: reruns                                                         *)
(* ------------------------------------------------------------------ *)
\* C13: a complete run that repeats the complete run before it (same key, same
\* arguments, same environments), the workspace untouched in between and the assets
\* of the first run still there, resolves the specId and the collectionUid of the
\* first run, whether the state file was kept or deleted in between.
C13_RerunSameIds ==
  (/\ pc = "done" /\ exitCode = 0
   /\ prev.at = "rerun"
   /\ \E i \in 1..Len(rSpecs) : rSpecs[i].id = prev.specId
   /\ \E i \in 1..Len(rCols) : rCols[i].uid = prev.collectionUid)
  => (specId = prev.specId /\ collectionUid = prev.collectionUid)

C15_CachedSpecIdKept ==
  [][(/\ pc \notin {"idle", "done"}
      /\ file.exists /\ file' # file
      /\ entryKey \in DOMAIN file.entries
      /\ file.entries[entryKey].specId # None)
     => (/\ file'.exists
         /\ entryKey \in DOMAIN file'.entries
         /\ file'.entries[entryKey].specId = file.entries[entryKey].specId)]_vars

\* a complete run that was given a --spec-id other than the cached specId and saved
\* a collectionUid next to the cached specId
C15_Witness ==
  /\ pc = "done" /\ exitCode = 0
  /\ cached.specId # None /\ cached.collectionUid = None
  /\ args.specId # None /\ args.specId # cached.specId
  /\ file.entries[entryKey].specId = cached.specId
  /\ file.entries[entryKey].collectionUid # None

(* ------------------------------------------------------------------ *)
(* C16: the generated-collections tier                                 *)
(* ------------------------------------------------------------------ *)
\* C16: when no collection generated from the spec has the constructed name, the
\* tier adopts one of them only if there is exactly one; with two or more it yields
\* nothing and the run goes on to the lookup by name.
C16_SoleEntryOnly ==
  LET linked == {i \in 1..Len(rCols) : rCols[i].spec = specId}
  IN (/\ lastCall.op = "getSpecCollections" /\ lastCall.ok
      /\ \A i \in linked : rCols[i].name # collectionName)
     => /\ collectionUid # None => Cardinality(linked) = 1
        /\ Cardinality(linked) >= 2 => (collectionUid = None /\ pc = "find_col")

(* ------------------------------------------------------------------ *)
(* C17: a save touches the entry of the run only                       *)
(* ------------------------------------------------------------------ *)
\* C17: every save of a run keeps every key the state file held and leaves the
\* entry under every key other than the key of the run as it was.
C17_OtherEntriesKept ==
  [][(pc \notin {"idle", "done"} /\ file.exists /\ file' # file)
     => (/\ file'.exists
         /\ \A k \in DOMAIN file.entries :
              /\ k \in DOMAIN file'.entries
              /\ k # entryKey => file'.entries[k] = file.entries[k])]_vars

\* a complete run has added its entry to a state file that holds the entry of
\* another key
C17_Witness ==
  /\ pc = "done" /\ exitCode = 0
  /\ cached = EmptyEntry
  /\ \E k \in DOMAIN file.entries :
       k # entryKey /\ file.entries[k].collectionUid # None
  /\ entryKey \in DOMAIN file.entries
  /\ file.entries[entryKey].collectionUid # None

(* ------------------------------------------------------------------ *)
(* C18: overlapping runs on one state file                             *)
(* ------------------------------------------------------------------ *)
\* C18: nothing locks the state file.  When two runs have both ended with exit
\* status 0, the file is exactly the document of the run that saved last, so what
\* the other run wrote after that document was loaded is lost; the witness is the
\* interleaving in which both runs, for different keys, load before either's final
\* save and the file ends without the entry of the run that saved first.
C18_LastSaveWins ==
  (pc = "done" /\ exitCode = 0 /\ other.pc = "done" /\ other.exit = 0)
  => /\ file.exists
     /\ file.entries = IF other.savedAt = "after" THEN other.state ELSE state

C18_Witness ==
  /\ pc = "done" /\ exitCode = 0
  /\ other.pc = "done" /\ other.exit = 0
  /\ other.key # entryKey
  /\ other.loadedAt = "during" /\ other.savedAt = "after"
  /\ entryKey \in DOMAIN state
  /\ entryKey \notin DOMAIN file.entries
  /\ other.key \in DOMAIN file.entries

(* ------------------------------------------------------------------ *)
(* C19: what loadState hands to main                                   *)
(* ------------------------------------------------------------------ *)
\* C19, as stated: loadState always hands main a document with a usable entries
\* mapping, so no run ends at the selection of its entry.
C19_LoadAlwaysUsable ==
  ~(pc = "done" /\ exitCode = 1 /\ input = "state" /\ lastCall.op = "none")

\* C19, amended: loadState never raises.  For a state file that is absent or not
\* JSON the run starts with entries = {}, and for a document with entries with
\* those; a file that parses to JSON without an entries mapping is handed on as it
\* is, and the run ends with exit status 1 at the selection of its entry, before
\* any remote call and without touching the file.
C19_LoadResult ==
  [][(runs' # runs /\ input' \in {"ok", "state"})
     => IF file.exists /\ file.form = "json"
        THEN /\ input' = "state"
             /\ pc' = "done" /\ exitCode' = 1
             /\ \A op \in DOMAIN calls' : calls'[op] = 0
             /\ file' = file
        ELSE /\ input' = "ok"
             /\ pc' \in {"find_spec", "patch"} /\ exitCode' = "none"
             /\ state' = IF file.exists /\ file.form = "entries" THEN file.entries
                         ELSE << >>]_vars

\* a run has ended at the selection of its entry: the state file is JSON without
\* an entries mapping
C19_Witness ==
  /\ pc = "done" /\ exitCode = 1 /\ input = "state"
  /\ file.exists /\ file.form = "json"
  /\ lastCall.op = "none"

(* ------------------------------------------------------------------ *)
(* C20: input errors                                                   *)
(* ------------------------------------------------------------------ *)
\* C20: a run with a missing service, stage or OpenAPI path, a missing API key or
\* workspace id, or an OpenAPI file of more than 10 MB ends in its first step with a
\* non-zero exit status, without a request to the platform and without a write to
\* the state file.
C20_InputErrorsBeforeRemote ==
  [][(runs' # runs /\ input' \in {"usage", "env", "size"})
     => (/\ pc' = "done"
         /\ exitCode' \in {1, 2}
         /\ \A op \in DOMAIN calls' : calls'[op] = 0
         /\ lastCall'.op = "none"
         /\ file' = file
         /\ rSpecs' = rSpecs /\ rCols' = rCols /\ rEnvs' = rEnvs /\ rTasks' = rTasks
         /\ nextId' = nextId)]_vars

\* a run for a key with cached identifiers was refused for its oversized OpenAPI file
C20_Witness ==
  /\ pc = "done" /\ exitCode = 1 /\ input = "size"
  /\ cached.specId # None /\ cached.collectionUid # None
  /\ lastCall.op = "none"
  /\ file.entries[entryKey] = cached

(* ------------------------------------------------------------------ *)
(* C21: upsertEnvironment                                              *)
(* ------------------------------------------------------------------ *)
\* C21: with an existing identifier the update comes first; a create is issued only
\* when no identifier was supplied or the update failed, never after a successful
\* update; a failed update does not fail the upsert; and the identifier the upsert
\* returns is that of the environment that was updated or created.
C21_UpsertResult ==
  /\ pc = "env_put"
       => (envIdx \in DOMAIN entry.environments /\ entry.environments[envIdx] # None)
  /\ pc = "env_post"
       => \/ envIdx \notin DOMAIN entry.environments
          \/ entry.environments[envIdx] = None
          \/ /\ lastCall.op = "updateEnvironment" /\ ~lastCall.ok
             /\ lastCall.col = entry.environments[envIdx]
  /\ (lastCall.op = "updateEnvironment" /\ ~lastCall.ok)
       => (pc = "env_post" /\ exitCode = "none")
  /\ (lastCall.op = "updateEnvironment" /\ lastCall.ok)
       => /\ (envIdx - 1) \in DOMAIN createdEnvs
          /\ createdEnvs[envIdx - 1] = lastCall.col
          /\ \E i \in 1..Len(rEnvs) : rEnvs[i].uid = lastCall.col
  /\ (lastCall.op = "createEnvironment" /\ lastCall.ok)
       => /\ (envIdx - 1) \in DOMAIN createdEnvs
          /\ createdEnvs[envIdx - 1] = rEnvs[Len(rEnvs)].uid

(* ------------------------------------------------------------------ *)
(* C22: the merge of the environment identifiers                       *)
(* ------------------------------------------------------------------ *)
\* C22: after a complete run every environment key the state entry held before the
\* run is still in the entry, in memory and in the file, with an identifier: the old
\* one when the environment was not upserted in this run, else the one the upsert
\* returned.
C22_EnvironmentKeysKept ==
  (pc = "done" /\ exitCode = 0)
  => \A n \in DOMAIN cached.environments :
       /\ n \in DOMAIN entry.environments
       /\ entry.environments[n] # None
       /\ n \in DOMAIN file.entries[entryKey].environments
       /\ file.entries[entryKey].environments[n] = entry.environments[n]
       /\ entry.environments[n] = IF n \in DOMAIN createdEnvs THEN createdEnvs[n]
                                  ELSE cached.environments[n]

(* ------------------------------------------------------------------ *)
(* C23: environments are looked up by name                             *)
(* ------------------------------------------------------------------ *)
\* C23: a run that repeats a complete run after the state file was lost, and so
\* holds no identifier for an environment, creates it only if the workspace has no
\* environment of that name: there are never two environments with one name.
C23_ResolvesByName ==
  (/\ prev.at = "rerun"
   /\ cached = EmptyEntry
   /\ lastCall.op = "createEnvironment" /\ lastCall.ok)
  => \A i \in 1..(Len(rEnvs) - 1) : rEnvs[i].name # rEnvs[Len(rEnvs)].name
C25_TracksHash ==
  /\ (pc = "done" /\ exitCode = 0 /\ calls["patchSpecFile"] = 1 /\ lastCall.ok)
       => /\ entryKey \in DOMAIN file.entries
          /\ file.entries[entryKey].lastSpecSha = fileSha
  /\ (input = "ok" /\ cached.lastSpecSha = fileSha) => calls["patchSpecFile"] = 0

\* C26: one collection per {service, stage}: when a run that started from an empty entry
\* and without overrides ends with exit 0, the collectionUid it saved differs from the
\* collectionUid saved under every other key of the state file (the keys differ only in
\* the stage).
C26_CollectionPerStage ==
  (/\ pc = "done" /\ exitCode = 0
   /\ cached = EmptyEntry
   /\ args.specId = None /\ args.collectionUid = None
   /\ entryKey \in DOMAIN file.entries)
    => \A k \in DOMAIN file.entries \ {entryKey} :
         \/ file.entries[k].collectionUid = None
         \/ file.entries[entryKey].collectionUid # file.entries[k].collectionUid

\* the whitespace-normalized tuple of the arguments of a call of key
Normalized(in) == << sanitizedDomain(in[1]), ReplaceSpace(in[2]), ReplaceSpace(in[3]) >>

\* C27: two calls of key give the same key iff the whitespace-normalized tuples of their
\* arguments are equal component by component, for components that contain ':' too.
C27_KeyInjective ==
  [][(pure.fn = "key" /\ pure'.fn = "key")
       => ((pure.out = pure'.out) <=> (Normalized(pure.in) = Normalized(pure'.in)))]_vars

\* C28: a path item of the input is in the output paths iff it carries the any-method
\* construct or an operation under a recognized HTTP method; a path item with only
\* path-level parameters or only vendor extensions is not in the output.
C28_PathKeptIffMethod ==
  (pure.fn = "transform" /\ ~pure.threw /\ pure.in.hasPaths)
    => \A q \in DOMAIN pure.in.paths :
         q \in DOMAIN pure.out.paths
           <=> \/ pure.in.paths[q].any.present
               \/ \E m \in DOMAIN pure.in.paths[q].ops : recognized(m)

\* C29: a path item that carries the any-method construct is in the output with exactly
\* the operations get and post; both carry the construct's declared responses, or the
\* default 200/500 pair when it declares none, and only post declares a request body.
C29_ProxyExpansion ==
  (pure.fn = "transform" /\ ~pure.threw /\ pure.in.hasPaths)
    => \A q \in DOMAIN pure.in.paths :
         pure.in.paths[q].any.present
           => /\ q \in DOMAIN pure.out.paths
              /\ DOMAIN pure.out.paths[q].ops = {"get", "post"}
              /\ \A m \in {"get", "post"} :
                   /\ pure.out.paths[q].ops[m].responses =
                        IF pure.in.paths[q].any.declares
                        THEN pure.in.paths[q].any.responses
                        ELSE {"200", "500"}
                   /\ pure.out.paths[q].ops[m].requestBody <=> m = "post"

\* a proxy route that declares responses {201}, next to operations of its own, expanded
C29_Witness ==
  /\ pure.fn = "transform" /\ ~pure.threw /\ pure.in.hasPaths
  /\ "/p" \in DOMAIN pure.in.paths
  /\ pure.in.paths["/p"].any.declares
  /\ pure.in.paths["/p"].any.responses = {"201"}
  /\ DOMAIN pure.in.paths["/p"].ops = {"get", "trace"}
  /\ pure.out.paths["/p"].ops["get"].responses = {"201"}

\* C30 as stated: the output has neither reserved root extension, and its tags are the
\* input tags, in order, whose name does not start with 'aws:' or 'httpapi:'.
C30_TagsFilteredByPrefix ==
  (pure.fn = "transform" /\ ~pure.threw)
    => /\ ~pure.out.cors /\ ~pure.out.version
       /\ pure.out.hasTags = pure.in.hasTags
       /\ pure.out.tags =
            SelectSeq(pure.in.tags,
                      LAMBDA tag : /\ ~startsWith(tag.name, awsPrefix)
                                   /\ ~startsWith(tag.name, httpapiPrefix))

\* C30: the output has neither reserved root extension, and its tags are the input tags,
\* in order, that have a non-empty name that does not start with 'aws:' or 'httpapi:';
\* each of them is unchanged, and a document without tags stays without tags.
C30_TagsFiltered ==
  (pure.fn = "transform" /\ ~pure.threw)
    => /\ ~pure.out.cors /\ ~pure.out.version
       /\ pure.out.hasTags = pure.in.hasTags
       /\ pure.out.tags =
            SelectSeq(pure.in.tags,
                      LAMBDA tag : /\ tag.hasName /\ tag.name # << >>
                                   /\ ~startsWith(tag.name, awsPrefix)
                                   /\ ~startsWith(tag.name, httpapiPrefix))

\* a document with both root extensions, a tag of the httpapi: family and an unrelated
\* tag, transformed
C30_Witness ==
  /\ pure.fn = "transform" /\ ~pure.threw
  /\ pure.in.cors /\ pure.in.version
  /\ pure.in.hasTags /\ Len(pure.in.tags) = 2
  /\ startsWith(pure.in.tags[1].name, httpapiPrefix)
  /\ pure.in.tags[2].name = << "p", "u", "b" >>
  /\ pure.out.tags = << pure.in.tags[2] >>

\* C31: transform never throws on a structurally incomplete document, and a part of the
\* wrong shape is left as it is: tags that are not an array, paths that are not an
\* object, servers that are not an array.
C31_NeverThrows ==
  pure.fn = "transform"
    => /\ ~pure.threw
       /\ (pure.in.hasTags /\ ~pure.in.tagsIsArray)
            => (pure.out.hasTags /\ ~pure.out.tagsIsArray)
       /\ (pure.in.hasPaths /\ ~pure.in.pathsIsObject)
            => (pure.out.hasPaths /\ ~pure.out.pathsIsObject)
       /\ (pure.in.hasServers /\ ~pure.in.serversIsArray)
            => (pure.out.hasServers /\ ~pure.out.serversIsArray)

\* the value of a property of a descriptor
DescriptorValue(env, placeholder) ==
  IF placeholder = "apiId" THEN env.apiId
  ELSE IF placeholder = "region" THEN env.region ELSE env.stage

\* C32 as stated: with an enabled descriptor, every placeholder of the template gets a
\* variable; when some enabled descriptor has a value for it, its default is the first
\* non-empty value and it has an enum iff there is more than one distinct value.
C32_EnumIffSeveral ==
  pure.fn = "enrich"
    => LET envs == SelectSeq(pure.in.environments, LAMBDA env : env.enabled)
       IN envs # << >>
            => /\ DOMAIN pure.out.variables = pure.in.urlPattern
               /\ \A q \in pure.in.urlPattern :
                    LET filled == {i \in 1..Len(envs) : DescriptorValue(envs[i], q) # ""}
                    IN filled # {}
                         => /\ \E i \in filled :
                                 /\ \A j \in filled : i <= j
                                 /\ pure.out.variables[q].default = DescriptorValue(envs[i], q)
                            /\ pure.out.variables[q].hasEnum
                                 <=> Cardinality({DescriptorValue(envs[i], q) : i \in filled}) > 1

\* C32: with an enabled descriptor, every placeholder of the template gets a variable.
\* For apiId the default is the first non-empty value among the enabled descriptors
\* ('API_ID' when there is none) and there is an enum, of the distinct non-empty values,
\* iff there is more than one. For region and stage the default is the value of the
\* first enabled descriptor, empty or not, and there is always an enum of the distinct
\* values, one value included. An enum lists each value once, in first-seen order.
C32_ServerVariables ==
  pure.fn = "enrich"
    => LET envs == SelectSeq(pure.in.environments, LAMBDA env : env.enabled)
       IN IF envs = << >>
          THEN ~pure.out.enriched
          ELSE /\ pure.out.enriched
               /\ DOMAIN pure.out.variables = pure.in.urlPattern
               /\ \A q \in pure.in.urlPattern :
                    LET var == pure.out.variables[q]
                        counted == {i \in 1..Len(envs) :
                                      q = "apiId" => envs[i].apiId # ""}
                        First(v) == CHOOSE i \in counted :
                                      /\ DescriptorValue(envs[i], q) = v
                                      /\ \A j \in counted :
                                           DescriptorValue(envs[j], q) = v => i <= j
                    IN /\ var.default =
                            IF counted = {} THEN "API_ID"
                            ELSE DescriptorValue(envs[CHOOSE i \in counted :
                                                   \A j \in counted : i <= j], q)
                       /\ var.hasEnum <=>
                            (q = "apiId"
                               => Cardinality({DescriptorValue(envs[i], q) : i \in counted}) > 1)
                       /\ var.hasEnum
                            => /\ {var.enum[i] : i \in 1..Len(var.enum)}
                                    = {DescriptorValue(envs[i], q) : i \in counted}
                               /\ \A i, j \in 1..Len(var.enum) :
                                    i < j => First(var.enum[i]) < First(var.enum[j])

\* two enabled descriptors in one region and two stages, after a disabled one: the
\* region variable has an enum of one value
C32_Witness ==
  /\ pure.fn = "enrich"
  /\ pure.in.urlPattern = Placeholders
  /\ Len(pure.in.environments) = 2
  /\ pure.in.environments[1].enabled /\ pure.in.environments[2].enabled
  /\ pure.in.environments[1].region = "us" /\ pure.in.environments[2].region = "us"
  /\ pure.in.environments[1].stage = "dev" /\ pure.in.environments[2].stage = "prod"
  /\ pure.out.variables["region"].enum = << "us" >>
  /\ pure.out.variables["stage"].enum = << "dev", "prod" >>

\* C33: pollTask terminates: a run that is in a poll loop leaves it, whether or not the
\* task ever becomes terminal; a poll issues at most MaxPolls fetches (timeout/interval);
\* a fetch that fails ends the run fatally and is not retried.
C33_PollTerminates ==
  /\ [](calls["taskFetch"] <= MaxPolls)
  /\ []((lastCall.op = "taskFetch" /\ ~lastCall.ok) => (pc = "done" /\ exitCode = 1))
  /\ (pc \in {"sync_poll", "gen_poll"}) ~> (pc \notin {"sync_poll", "gen_poll"})

\* the deadline passed with the task still pending: the loop ended with the last answer
C33_Witness ==
  /\ pc \in {"sync_check", "gen_check"}
  /\ polls = MaxPolls
  /\ calls["taskFetch"] = MaxPolls
  /\ taskResult.status = "pending"

\* C34: the engine and the poller agree on success: when pollTask has returned a payload
\* whose status is 'success' or 'completed' in any letter case, the step that tests the
\* result does not end the run with a task failure.
C34_SuccessAgreed ==
  [][(/\ pc \in {"sync_check", "gen_check"}
      /\ Lower(taskResult.status) \in {"success", "completed"})
       => ~(pc' = "done" /\ exitCode' = 1)]_vars

\* C35: when the poll of a generation ends at the deadline with the task still pending,
\* the next step of main ends the run with exit 1 and leaves the state file alone: it
\* holds no collectionUid for the key, and it holds the run's specId when the run took it
\* from the state file, found it by name or created it.  A run whose listing of the
\* spec's generated collections finds a collection requests no generation, and has
\* requested one sync once it is past the sync request.
C35_DeadlineThenRerun ==
  [][/\ (/\ pc = "gen_check" /\ pc' # pc
         /\ taskResult.status = "pending" /\ polls = MaxPolls)
          => /\ pc' = "done" /\ exitCode' = 1
             /\ file' = file
             /\ entryKey \in DOMAIN file.entries
                  => file.entries[entryKey].collectionUid = None
             /\ (cached.specId # None \/ args.specId = None)
                  => /\ entryKey \in DOMAIN file.entries
                     /\ file.entries[entryKey].specId = specId
     /\ hits'["getSpecCollections"] >= 1
          => /\ calls'["generateCollection"] = 0
             /\ pc' # "sync" => calls'["syncCollection"] = 1]_vars

\* a generation whose poll ran into the deadline: the run has failed, the spec is in
\* the state file, the collection is not
C35_Witness ==
  /\ pc = "done" /\ exitCode = 1
  /\ calls["generateCollection"] = 1
  /\ polls = MaxPolls
  /\ taskResult.status = "pending"
  /\ entryKey \in DOMAIN file.entries
  /\ file.entries[entryKey].specId = specId
  /\ file.entries[entryKey].collectionUid = None

\* C36: in the environment step the descriptors are attempted one after the other in
\* configuration order, each once: a step of the loop makes one call for the current
\* descriptor and moves to the next one, except that a failed update is followed by
\* the create of the same descriptor.  A failed call changes no exit status, the loop
\* ends only after the last descriptor, and then the run saves its entry and ends
\* with exit 0.
C36_EveryDescriptorAttempted ==
  [][(pc \in {"env_put", "env_post"} /\ calls' # calls)
       => /\ envIdx \in 1..envN
          /\ calls'["updateEnvironment"] + calls'["createEnvironment"]
               = calls["updateEnvironment"] + calls["createEnvironment"] + 1
          /\ calls'["updateEnvironment"] <= envIdx /\ calls'["createEnvironment"] <= envIdx
          /\ IF pc = "env_put" /\ ~lastCall'.ok
             THEN envIdx' = envIdx /\ pc' = "env_post"
             ELSE envIdx' = envIdx + 1
          /\ pc' = "done" <=> envIdx' = envN + 1
          /\ pc' # "done" => (exitCode' = exitCode /\ pc' \in {"env_put", "env_post"})
          /\ pc' = "done"
               => /\ exitCode' = 0
                  /\ file'.exists /\ entryKey \in DOMAIN file'.entries
                  /\ file'.entries[entryKey].specId = specId
                  /\ file'.entries[entryKey].collectionUid = collectionUid]_vars

\* the create of the first descriptor failed, the second descriptor was created, and the
\* run ended with exit 0 and the second environment in the state file
C36_Witness ==
  /\ pc = "done" /\ exitCode = 0
  /\ envN = MaxLoopEnvs
  /\ envIdx = envN + 1
  /\ calls["createEnvironment"] = envN
  /\ DOMAIN createdEnvs = {envN}
  /\ createdEnvs[envN] # None
  /\ DOMAIN file.entries[entryKey].environments = {envN}

\* C37 as stated: every operation that a path item declares under a recognized HTTP
\* method is in the output under the same method, unchanged but for the two vendor
\* extensions, also when the path item carries the any-method construct.
C37_OperationsPreserved ==
  (pure.fn = "transform" /\ ~pure.threw /\ pure.in.hasPaths /\ pure.in.pathsIsObject)
    => \A q \in DOMAIN pure.in.paths :
         \A m \in DOMAIN pure.in.paths[q].ops :
           toLowerCase(m) \in {"get", "post", "put", "patch", "delete", "head", "options"}
             => /\ q \in DOMAIN pure.out.paths
                /\ m \in DOMAIN pure.out.paths[q].ops
                /\ pure.out.paths[q].ops[m] =
                     [pure.in.paths[q].ops[m] EXCEPT !.integration = FALSE,
                                                     !.validator = FALSE]

\* C37: every operation that a path item without the any-method construct declares
\* under a recognized HTTP method, in any letter case, is in the output under the same
\* method, unchanged but for the two vendor extensions, and the output item has no other
\* operation.  A path item with the construct keeps none of its declared operations:
\* its get and post are the generated ones.
C37_OperationsPreservedWithoutAny ==
  (pure.fn = "transform" /\ ~pure.threw /\ pure.in.hasPaths /\ pure.in.pathsIsObject)
    => \A q \in DOMAIN pure.in.paths :
         LET known == {m \in DOMAIN pure.in.paths[q].ops :
                         toLowerCase(m) \in {"get", "post", "put", "patch", "delete",
                                             "head", "options"}}
         IN IF pure.in.paths[q].any.present
            THEN /\ q \in DOMAIN pure.out.paths
                 /\ \A m \in DOMAIN pure.out.paths[q].ops :
                      pure.out.paths[q].ops[m].summary = "Proxy route"
            ELSE /\ known # {} => q \in DOMAIN pure.out.paths
                 /\ q \in DOMAIN pure.out.paths
                      => /\ DOMAIN pure.out.paths[q].ops = known
                         /\ \A m \in known :
                              pure.out.paths[q].ops[m] =
                                [pure.in.paths[q].ops[m] EXCEPT !.integration = FALSE,
                                                                !.validator = FALSE]

\* a path item without the construct that declares get, POST and a key that is no
\* method: the output has get and POST, without the extensions
C37_Witness ==
  /\ pure.fn = "transform" /\ ~pure.threw
  /\ "/p" \in DOMAIN pure.in.paths
  /\ ~pure.in.paths["/p"].any.present
  /\ DOMAIN pure.in.paths["/p"].ops = {"get", "POST", "trace"}
  /\ pure.in.paths["/p"].ops["POST"].integration
  /\ DOMAIN pure.out.paths["/p"].ops = {"get", "POST"}
  /\ ~pure.out.paths["/p"].ops["POST"].integration

(***************************************************************************)
(* The standalone environment upsert script (environments_upsert.js):     *)
(* main lists the workspace environments unless --env-uid is given, then  *)
(* updates the environment it found or creates a new one.                 *)
(***************************************************************************)

\* environments of the workspace before the script runs
MaxWsEnvs == 2

\* `[${domain}] ${service} #env-${region-}${stage}`: the name main constructs
envName == "[demo] svc #env-dev"

\* names of the environments of the workspace
EnvNames == {envName, "[demo] other #env-dev"}

\* uid of the environment a successful POST /environments creates
NewUid == MaxWsEnvs + 2

\* the workspace: environment i has uid i
Workspaces == UNION {[1..n -> [uid : {0}, name : EnvNames, written : {FALSE}]] : n \in 0..MaxWsEnvs}

WorkspaceOf(ws) == [i \in 1..Len(ws) |-> [ws[i] EXCEPT !.uid = i]]

\* variant: the last environment of that name
find_Last(envs, name) ==
  LET hit == {i \in 1..Len(envs) : envs[i].name = name}
  IN  IF hit = {} THEN None ELSE envs[CHOOSE i \in hit : \A j \in hit : j <= i].uid

\* envs.find(e => e.name === envName)?.uid || '': the first environment of that name
find(envs, name) ==
  LET hit == {i \in 1..Len(envs) : envs[i].name = name}
  IN  IF hit = {} THEN None ELSE envs[CHOOSE i \in hit : \A j \in hit : i <= j].uid

\* main up to the listing: the usage check (exit 2), requireEnv (throws: exit 1),
\* let envUid = envUidArg
UpsertStart ==
  /\ script.name = "none"
  /\ \E ws \in Workspaces, arg \in 0..(MaxWsEnvs + 1), flaw \in {"ok", "usage", "env"} :
       script' = [name |-> "upsert",
                  pc |-> IF flaw # "ok" THEN "done" ELSE IF arg = None THEN "list" ELSE "update",
                  exit |-> IF flaw = "usage" THEN "2" ELSE IF flaw = "env" THEN "1" ELSE "none",
                  envs |-> WorkspaceOf(ws), envUidArg |-> arg, envUid |-> arg,
                  lists |-> 0, puts |-> 0, posts |-> 0, target |-> None, lastOk |-> TRUE]
  /\ UNCHANGED << program, pure >>

\* if (!envUid): listEnvironments and the search by name; a failing GET throws
UpsertList ==
  /\ script.name = "upsert" /\ script.pc = "list"
  /\ \E ok \in BOOLEAN :
       LET found == find(script.envs, envName)
       IN  script' = [script EXCEPT !.lists = @ + 1, !.lastOk = ok,
                        !.envUid = IF ok THEN found ELSE @,
                        !.pc = IF ~ok THEN "done" ELSE IF found # None THEN "update" ELSE "create",
                        !.exit = IF ok THEN @ ELSE "1"]
  /\ UNCHANGED << program, pure >>

\* if (envUid): updateEnvironment, PUT /environments/{uid} with the name and the
\* values; a failing PUT throws and main's catch exits 1
UpsertUpdate ==
  /\ script.name = "upsert" /\ script.pc = "update"
  /\ \E fault \in BOOLEAN :
       LET hit == {i \in 1..Len(script.envs) : script.envs[i].uid = script.envUid}
           ok  == ~fault /\ hit # {}
       IN  script' = [script EXCEPT !.puts = @ + 1, !.target = script.envUid, !.lastOk = ok,
                        !.envs = [i \in 1..Len(@) |->
                                    IF ok /\ i \in hit
                                    THEN [@[i] EXCEPT !.name = envName, !.written = TRUE]
                                    ELSE @[i]],
                        !.pc = "done", !.exit = IF ok THEN "0" ELSE "1"]
  /\ UNCHANGED << program, pure >>

\* else: createEnvironment, POST /environments?workspace=...; a failing POST throws
UpsertCreate ==
  /\ script.name = "upsert" /\ script.pc = "create"
  /\ \E ok \in BOOLEAN :
       script' = [script EXCEPT !.posts = @ + 1, !.lastOk = ok,
                    !.envs = IF ok THEN Append(@, [uid |-> NewUid, name |-> envName, written |-> TRUE])
                             ELSE @,
                    !.pc = "done", !.exit = IF ok THEN "0" ELSE "1"]
  /\ UNCHANGED << program, pure >>

NextUpsert == UpsertStart \/ UpsertList \/ UpsertUpdate \/ UpsertCreate

SpecUpsert == Init /\ [][NextUpsert]_vars

\* C38: a successful run of the upsert script made exactly one write (and no run
\* makes two); without --env-uid the script lists the environments once and with
\* it never; an update found by name goes to the first environment of the
\* constructed name; a create happens only when no environment of the workspace
\* had that name; a failed update ends the run with a non-zero status and
\* without a create.
C38_OneWritePerRun ==
  script.name = "upsert" =>
    /\ script.puts + script.posts <= 1
    /\ (script.pc = "done" /\ script.exit = "0") => script.puts + script.posts = 1
    /\ (script.envUidArg = None
          /\ (script.pc \in {"update", "create"} \/ script.puts + script.posts = 1)) =>
         script.lists = 1
    /\ script.envUidArg # None => script.lists = 0 /\ script.posts = 0
    /\ (script.envUidArg = None /\ (script.pc = "update" \/ script.puts = 1)) =>
         LET hit == {i \in 1..Len(script.envs) : script.envs[i].name = envName}
             tgt == IF script.pc = "update" THEN script.envUid ELSE script.target
         IN  /\ hit # {}
             /\ \E i \in hit : script.envs[i].uid = tgt /\ \A j \in hit : i <= j
    /\ (script.pc = "create" \/ script.posts = 1) =>
         \A i \in 1..Len(script.envs) :
            script.envs[i].name = envName => script.envs[i].uid = NewUid
    /\ (script.pc = "done" /\ script.puts = 1 /\ ~script.lastOk) =>
         script.exit = "1" /\ script.posts = 0

\* the script found the second environment of the workspace by name and updated it
C38_Witness ==
  /\ script.name = "upsert" /\ script.pc = "done" /\ script.exit = "0"
  /\ script.envUidArg = None /\ script.lists = 1 /\ script.puts = 1 /\ script.posts = 0
  /\ script.target = 2 /\ script.envs[2].written /\ ~script.envs[1].written

(***************************************************************************)
(* The preflight checker (scripts/preflight_check.js): runAll runs the    *)
(* checks one after the other, each logging checks and warnings, then     *)
(* printSummary decides the exit status.                                  *)
(***************************************************************************)

\* the checks of runAll, in the order it awaits them
Order == << "checkNodeVersion", "checkAWSCLI", "checkPostmanAPIKey", "checkPostmanWorkspaceId",
            "checkScripts", "checkStateDirectory", "checkJQAvailability" >>

\* new PreflightChecker(): checks, warnings and errors are empty
NewChecker == [name |-> "preflight", pc |-> "check", ran |-> << >>, checks |-> << >>,
               warnings |-> 0, errors |-> 0, exit |-> "none"]

\* variant: a check that did not pass is logged but not recorded as an error
logCheck_Unrecorded(s, name, passed) ==
  [s EXCEPT !.checks = Append(@, [name |-> name, passed |-> passed])]

\* logCheck: errors.push when not passed, checks.push always
logCheck(s, name, passed) ==
  [s EXCEPT !.errors = IF passed THEN @ ELSE @ + 1,
            !.checks = Append(@, [name |-> name, passed |-> passed])]

\* logWarning: warnings.push
logWarning(s, name) == [s EXCEPT !.warnings = @ + 1]

\* the check runAll is at: the one after those that have returned
AtCheck(method) ==
  /\ script.name = "preflight" /\ script.pc = "check"
  /\ Len(script.ran) < Len(Order) /\ Order[Len(script.ran) + 1] = method

\* the check returns to runAll
returned(s, method) == [s EXCEPT !.ran = Append(@, method)]

PreflightStart ==
  /\ script.name = "none"
  /\ script' = NewChecker
  /\ UNCHANGED << program, pure >>

\* major >= 18, or the version cannot be determined
checkNodeVersion ==
  /\ AtCheck("checkNodeVersion")
  /\ \E passed \in BOOLEAN :
       script' = returned(logCheck(script, "Node.js version", passed), "checkNodeVersion")
  /\ UNCHANGED << program, pure >>

\* which aws, then aws sts get-caller-identity
checkAWSCLI ==
  /\ AtCheck("checkAWSCLI")
  /\ \E installed \in BOOLEAN, authenticated \in BOOLEAN :
       script' = returned(
                   IF ~installed THEN logCheck(script, "AWS CLI installed", FALSE)
                   ELSE logCheck(logCheck(script, "AWS CLI installed", TRUE),
                                 "AWS credentials", authenticated),
                   "checkAWSCLI")
  /\ UNCHANGED << program, pure >>

\* the key is set, then GET /me: ok, 401, 403, another status, or a network error
checkPostmanAPIKey ==
  /\ AtCheck("checkPostmanAPIKey")
  /\ \E answer \in {"unset", "ok", "401", "403", "500", "network"} :
       script' = returned(
                   IF answer = "unset" THEN logCheck(script, "POSTMAN_API_KEY", FALSE)
                   ELSE logCheck(logCheck(script, "POSTMAN_API_KEY", TRUE),
                                 "Postman API authentication", answer = "ok"),
                   "checkPostmanAPIKey")
  /\ UNCHANGED << program, pure >>

\* the workspace id is set; one that is not a UUID is a warning and still passes
checkPostmanWorkspaceId ==
  /\ AtCheck("checkPostmanWorkspaceId")
  /\ \E id \in {"unset", "uuid", "other"} :
       script' = returned(
                   IF id = "unset" THEN logCheck(script, "POSTMAN_WORKSPACE_ID", FALSE)
                   ELSE logCheck(IF id = "other" THEN logWarning(script, "POSTMAN_WORKSPACE_ID format")
                                 ELSE script,
                                 "POSTMAN_WORKSPACE_ID", TRUE),
                   "checkPostmanWorkspaceId")
  /\ UNCHANGED << program, pure >>

\* one check per script of scriptsToCheck
checkScripts ==
  /\ AtCheck("checkScripts")
  /\ \E sync \in BOOLEAN, upsert \in BOOLEAN :
       script' = returned(logCheck(logCheck(script, "Script: spec_sync.js", sync),
                                   "Script: environments_upsert.js", upsert),
                          "checkScripts")
  /\ UNCHANGED << program, pure >>

\* a missing directory, a missing file and a file that is not JSON are warnings
checkStateDirectory ==
  /\ AtCheck("checkStateDirectory")
  /\ \E found \in {"nodir", "nofile", "json", "notjson"} :
       script' = returned(
                   IF found = "nodir" THEN logWarning(script, "State directory")
                   ELSE LET s == logCheck(script, "State directory", TRUE)
                        IN  IF found = "json" THEN logCheck(s, "State file", TRUE)
                            ELSE logWarning(s, "State file"),
                   "checkStateDirectory")
  /\ UNCHANGED << program, pure >>

\* which jq: a missing jq is a warning
checkJQAvailability ==
  /\ AtCheck("checkJQAvailability")
  /\ \E installed \in BOOLEAN :
       script' = returned(IF installed THEN logCheck(script, "jq (JSON processor)", TRUE)
                          ELSE logWarning(script, "jq (JSON processor)"),
                          "checkJQAvailability")
  /\ UNCHANGED << program, pure >>

\* printSummary: failed = total - passed; runAll exits 0 when it is 0, else 1
printSummary ==
  /\ script.name = "preflight" /\ script.pc = "check" /\ Len(script.ran) = Len(Order)
  /\ LET passed == Cardinality({i \in 1..Len(script.checks) : script.checks[i].passed})
         total  == Len(script.checks)
         failed == total - passed
     IN  script' = [script EXCEPT !.pc = "done", !.exit = IF failed = 0 THEN "0" ELSE "1"]
  /\ UNCHANGED << program, pure >>

NextPreflight ==
  \/ PreflightStart
  \/ checkNodeVersion
  \/ checkAWSCLI
  \/ checkPostmanAPIKey
  \/ checkPostmanWorkspaceId
  \/ checkScripts
  \/ checkStateDirectory
  \/ checkJQAvailability
  \/ printSummary

SpecPreflight == Init /\ [][NextPreflight]_vars

\* C39: the checks that have run are always the first ones of the fixed order,
\* and all seven have run when the summary is printed, whatever earlier checks
\* logged; the number of recorded errors equals the number of checks logged as
\* not passed; the exit status is 0 exactly when no check was logged as failed,
\* so it does not depend on the warnings.
C39_AllChecksThenStatus ==
  script.name = "preflight" =>
    LET notPassed == {i \in 1..Len(script.checks) : ~script.checks[i].passed}
    IN  /\ Len(script.ran) <= Len(Order)
        /\ script.ran = SubSeq(Order, 1, Len(script.ran))
        /\ script.pc = "done" => script.ran = Order
        /\ script.errors = Cardinality(notPassed)
        /\ script.pc = "done" => (script.exit = "0" <=> notPassed = {})
        /\ script.pc # "done" => script.exit = "none"

\* the first check failed, the later ones ran all the same, two warnings were
\* logged, and the exit status is 1 with exactly one recorded error
C39_Witness ==
  /\ script.name = "preflight" /\ script.pc = "done"
  /\ ~script.checks[1].passed /\ script.errors = 1 /\ script.warnings = 2
  /\ script.ran = Order /\ script.exit = "1"

====
